---------------------------- MODULE Spec2Model ----------------------------
(***************************************************************************)
(* A model of the OpenAPI object model of fevral13/openapi_om: the         *)
(* dataclass variant (openapy: asdict followed by remove_nulls) and the    *)
(* pydantic variant (openapi_om: construction through validators and       *)
(* aliases, dict(exclude_none=True, by_alias=True)).                       *)
(*                                                                         *)
(* Python values are tagged records:                                       *)
(*   [t |-> "none"]                    None                                *)
(*   [t |-> "int",  n |-> 1]           an int                              *)
(*   [t |-> "bool", b |-> TRUE]        a bool                              *)
(*   [t |-> "str",  s |-> <<..>>]      a str, as its sequence of tokens    *)
(*   [t |-> "enum", cls, name]         an Enum member                      *)
(*   [t |-> "list", items |-> <<..>>]  a list                              *)
(*   [t |-> "tuple", items |-> <<..>>] a tuple                             *)
(*   [t |-> "dict", items |-> <<[k |-> key, v |-> value], ..>>]            *)
(*                                     a dict, in insertion order          *)
(* A str is the sequence of its tokens; the underscore is always a token   *)
(* of its own, so "in__" is <<"in", "_", "_">>.  A dict key is             *)
(*   [kt |-> "str", s |-> tokens], [kt |-> "enum", cls, name] or           *)
(*   [kt |-> "int", n |-> 200].                                            *)
(***************************************************************************)
EXTENDS Integers, Sequences, FiniteSets, TLC

VARIABLES
  pc,       \* position of the run: which call has returned
  source,   \* openapy: the object handed to remove_nulls
  target,   \* openapy: that object after remove_nulls returned
  root,     \* openapi_om: the class of the record under construction
  kwargs,   \* openapi_om: the keyword arguments of the constructor call
  supplied, \* openapi_om: the number of entries the caller has added
  built,    \* openapi_om: the record constructed (or the error raised)
  assigned, \* openapi_om: the fields of built set by attribute assignment
  dumped,   \* openapi_om: its dict(exclude_none=True, by_alias=True)
  rebuilt,  \* openapi_om: the record constructed from dumped
  redumped, \* openapi_om: the dict(...) of rebuilt
  heap,     \* the list objects made for servers fields, by identity
  docs,     \* the OpenAPI documents constructed side by side
  runs,     \* openapy: the as_dict calls in progress on built, one per caller
  stdout,   \* export tool: the writes made to sys.stdout, in order
  files,    \* export tool: the writes made to named files, in order
  args      \* export tool: the parsed command line

vars == <<pc, source, target, root, kwargs, supplied, built, assigned, dumped, rebuilt,
          redumped, heap, docs, runs, stdout, files, args>>

-----------------------------------------------------------------------------
(* Bounds of the model. *)

\* The number of nodes (scalars, lists, tuples, dicts) of an input of remove_nulls.
MaxNodes == 4

\* The number of entries the caller adds to the required keyword arguments.
MaxSupplied == 3

\* The number of fields the caller sets on a constructed record.
MaxAssigned == 1

\* The number of OpenAPI documents constructed side by side.
MaxDocs == 3

\* The number of servers a document's list grows to.
MaxServers == 2

-----------------------------------------------------------------------------
(* Python values. *)

None == [t |-> "none"]
IntV(n) == [t |-> "int", n |-> n]
StrV(tokens) == [t |-> "str", s |-> tokens]
ListV(items) == [t |-> "list", items |-> items]
TupleV(items) == [t |-> "tuple", items |-> items]
DictV(items) == [t |-> "dict", items |-> items]
Item(k, v) == [k |-> k, v |-> v]

StrKey(tokens) == [kt |-> "str", s |-> tokens]
EnumKey(cls, name) == [kt |-> "enum", cls |-> cls, name |-> name]
IntKey(n) == [kt |-> "int", n |-> n]
NoneKey == [kt |-> "none"]

\* The members of the enums (aliases left out) and their values (Enum.value).
EnumMembers(cls) ==
  CASE cls = "SchemaType" ->
         {"null", "integer", "string", "object", "array", "number", "boolean"}
    [] cls = "PropertyFormat" ->
         {"integer", "long", "float", "double", "string", "byte", "binary", "date",
          "dateTime", "password"}
    [] cls = "ContentType" ->
         {"any", "json", "application", "html", "multipart_formdata", "text_csv"}
    [] cls = "InParameterChoice" -> {"query", "header", "path", "cookie"}
    [] cls = "SecuritySchemeChoice" -> {"apiKey", "http", "oauth2", "openIdConnect"}
    [] cls = "InSecuritySchemeChoice" -> {"query", "header", "cookie"}

EnumValue(cls, name) ==
  CASE cls = "ContentType" /\ name = "any" -> <<"*/*">>
    [] cls = "ContentType" /\ name = "json" -> <<"application/json">>
    [] cls = "ContentType" /\ name = "application" -> <<"application/*">>
    [] cls = "ContentType" /\ name = "html" -> <<"text/html">>
    [] cls = "ContentType" /\ name = "multipart_formdata" -> <<"multipart/form-data">>
    [] cls = "ContentType" /\ name = "text_csv" -> <<"text/csv">>
    [] cls = "PropertyFormat" /\ name = "integer" -> <<"int32">>
    [] cls = "PropertyFormat" /\ name = "long" -> <<"int64">>
    [] cls = "PropertyFormat" /\ name = "string" -> <<>>
    [] cls = "PropertyFormat" /\ name = "dateTime" -> <<"date-time">>
    [] OTHER -> <<name>>

-----------------------------------------------------------------------------
(* openapy.utils: remove_nulls *)

\* str.endswith("_")
endswith_(s) == Len(s) > 0 /\ s[Len(s)] = "_"

\* str.strip("_"): the underscores of both ends are removed.
RECURSIVE lstrip_(_)
lstrip_(s) == IF Len(s) > 0 /\ s[1] = "_" THEN lstrip_(Tail(s)) ELSE s

RECURSIVE rstrip_(_)
rstrip_(s) == IF endswith_(s) THEN rstrip_(SubSeq(s, 1, Len(s) - 1)) ELSE s

\* Mutant: key[:-1], one underscore is cut from the end.
strip_last(s) == SubSeq(s, 1, Len(s) - 1)

strip_(s) == rstrip_(lstrip_(s))

\* Dict entries carry the identity of the value object they hold (id: its
\* position in the snapshot tuple(obj.items())), so that the in-place change
\* remove_nulls(value) is seen exactly where that object is still stored.
HasKey(items, k) == \E i \in DOMAIN items : items[i].k = k
IndexOf(items, k) == CHOOSE i \in DOMAIN items : items[i].k = k
GetItem(items, k) == items[IndexOf(items, k)]

\* del obj[key], and the removal half of obj.pop(key)
DelItem(items, k) ==
  LET i == IndexOf(items, k)
  IN  SubSeq(items, 1, i - 1) \o SubSeq(items, i + 1, Len(items))

\* obj[k] = value: an existing key keeps its position, a new key goes last.
SetItem(items, k, e) ==
  IF HasKey(items, k)
  THEN [items EXCEPT ![IndexOf(items, k)] = [e EXCEPT !.k = k]]
  ELSE Append(items, [e EXCEPT !.k = k])

\* obj[new] = obj.pop(key)
Rekey(items, key, new) == SetItem(DelItem(items, key), new, GetItem(items, key))

\* The key an entry is moved to (key.value, key.strip("_")), or the key itself.
NewKey(key) ==
  IF key.kt = "enum" THEN StrKey(EnumValue(key.cls, key.name))
  ELSE IF key.kt = "str" /\ endswith_(key.s) THEN StrKey(strip_(key.s))
  ELSE key

RECURSIVE remove_nulls(_)

\* Mutant: the list branch is missing, list items are not visited.
remove_nulls_list_unvisited(items) == items

\* Mutant: the list branch drops the None items of the list.
remove_nulls_list_filtered(items) ==
  LET kept == SelectSeq(items, LAMBDA x : x # None)
  IN  [i \in DOMAIN kept |-> remove_nulls(kept[i])]

\* The list branch: every item is visited, the list itself is not changed.
remove_nulls_list(items) == [i \in DOMAIN items |-> remove_nulls(items[i])]

\* One round of the loop over tuple(obj.items()): snap is that tuple, cur the
\* entries of obj now.
remove_nulls_step(snap, i, cur) ==
  LET key == snap[i].k
      value == snap[i].v
  IN  IF value = None THEN DelItem(cur, key)
      ELSE LET moved == IF NewKey(key) # key THEN Rekey(cur, key, NewKey(key)) ELSE cur
           IN  [j \in DOMAIN moved |->
                  IF moved[j].id = i
                  THEN [moved[j] EXCEPT !.v = remove_nulls(value)]
                  ELSE moved[j]]

\* The rounds of the loop, in the order of the snapshot. A key leaves obj only
\* in its own round, so every round finds its key in obj, as del and pop need.
RECURSIVE remove_nulls_loop(_, _, _)
remove_nulls_loop(snap, i, cur) ==
  IF i > Len(snap) \/ ~HasKey(cur, snap[i].k) THEN cur
  ELSE remove_nulls_loop(snap, i + 1, remove_nulls_step(snap, i, cur))

remove_nulls_dict(items) ==
  LET snap == [i \in DOMAIN items |-> [k |-> items[i].k, v |-> items[i].v, id |-> i]]
      done == remove_nulls_loop(snap, 1, snap)
  IN  [i \in DOMAIN done |-> Item(done[i].k, done[i].v)]

remove_nulls(obj) ==
  IF obj.t = "list" THEN ListV(remove_nulls_list(obj.items))
  ELSE IF obj.t = "dict" THEN DictV(remove_nulls_dict(obj.items))
  ELSE obj

\* The values of the entries of a mapping, in order.
values_(items) == [i \in DOMAIN items |-> items[i].v]

\* Mutant: the loop runs over the live dict, so it also reaches the entries
\* it inserted under a new key.
visited_live(obj) ==
  IF obj.t = "list" THEN obj.items
  ELSE IF obj.t = "dict"
  THEN values_(SelectSeq(obj.items, LAMBDA e : e.v # None))
         \o values_(SelectSeq(obj.items, LAMBDA e : e.v # None /\ NewKey(e.k) # e.k))
  ELSE <<>>

\* The objects one call remove_nulls(obj) passes to remove_nulls: every item
\* of a list; of a dict, the values of the snapshot tuple(obj.items()) that
\* are not None (continue skips the others), each once.
visited(obj) ==
  IF obj.t = "list" THEN obj.items
  ELSE IF obj.t = "dict" THEN values_(SelectSeq(obj.items, LAMBDA e : e.v # None))
  ELSE <<>>

\* The number of calls of remove_nulls that remove_nulls(obj) makes, itself
\* included.
RECURSIVE calls(_)
calls(obj) ==
  LET RECURSIVE below(_)
      below(i) == IF i = 0 THEN 0 ELSE calls(visited(obj)[i]) + below(i - 1)
  IN  1 + below(Len(visited(obj)))

-----------------------------------------------------------------------------
(* openapi_om: the records (pydantic models) and their fields. *)

BoolV(b) == [t |-> "bool", b |-> b]
EnumV(cls, name) == [t |-> "enum", cls |-> cls, name |-> name]
\* An instance of a record class; items is its __dict__, in field order.
ModelV(cls, items) == [t |-> "model", cls |-> cls, items |-> items]
\* A raised exception, in place of the value the call would have returned.
Error(kind) == [t |-> "error", kind |-> kind]
IsError(v) == v.t = "error"
AnyError(xs) == \E i \in DOMAIN xs : IsError(xs[i])
AnyItemError(items) == \E i \in DOMAIN items : IsError(items[i].v)

\* The declared types of fields.
TStr == [k |-> "str"]
TBool == [k |-> "bool"]
TInt == [k |-> "int"]
TAny == [k |-> "any"]
TEnum(cls) == [k |-> "enum", cls |-> cls]
TModel(cls) == [k |-> "model", cls |-> cls]
TList(of) == [k |-> "list", of |-> of]
TSeq(of) == [k |-> "seq", of |-> of]
TDict(key, of) == [k |-> "dict", key |-> key, of |-> of]
TUnion(alts) == [k |-> "union", alts |-> alts]

\* A field: its name, its alias (the name when it has none), its type, whether
\* it is required, whether None is allowed (Optional, Any), its default, and
\* whether the default comes from a default_factory.
Field(name, alias, type, required, optional, default, factory) ==
  [name |-> name, alias |-> alias, type |-> type, required |-> required,
   optional |-> optional, default |-> default, factory |-> factory]

om_fields(cls) ==
  CASE cls = "Example" -> <<
    Field(<<"summary">>, <<"summary">>, TStr, FALSE, TRUE, None, FALSE),
    Field(<<"description">>, <<"description">>, TStr, FALSE, TRUE, None, FALSE),
    Field(<<"externalValue">>, <<"externalValue">>, TStr, FALSE, TRUE, None, FALSE),
    Field(<<"value">>, <<"value">>, TAny, FALSE, TRUE, None, FALSE) >>
    [] cls = "ExternalDocumentation" -> <<
    Field(<<"url">>, <<"url">>, TStr, TRUE, FALSE, None, FALSE),
    Field(<<"description">>, <<"description">>, TStr, FALSE, TRUE, None, FALSE) >>
    [] cls = "Tag" -> <<
    Field(<<"name">>, <<"name">>, TStr, TRUE, FALSE, None, FALSE),
    Field(<<"description">>, <<"description">>, TStr, FALSE, FALSE, StrV(<<>>), FALSE),
    Field(<<"externalDocs">>, <<"externalDocs">>, TModel("ExternalDocumentation"), FALSE, TRUE, None, FALSE) >>
    [] cls = "Contact" -> <<
    Field(<<"name">>, <<"name">>, TStr, FALSE, TRUE, None, FALSE),
    Field(<<"email">>, <<"email">>, TStr, FALSE, TRUE, None, FALSE),
    Field(<<"url">>, <<"url">>, TStr, FALSE, TRUE, None, FALSE) >>
    [] cls = "License" -> <<
    Field(<<"name">>, <<"name">>, TStr, TRUE, FALSE, None, FALSE),
    Field(<<"url">>, <<"url">>, TStr, FALSE, TRUE, None, FALSE) >>
    [] cls = "ServerVariable" -> <<
    Field(<<"default">>, <<"default">>, TStr, TRUE, FALSE, None, FALSE),
    Field(<<"enum">>, <<"enum">>, TList(TStr), FALSE, TRUE, None, FALSE),
    Field(<<"description">>, <<"description">>, TStr, FALSE, TRUE, None, FALSE) >>
    [] cls = "Server" -> <<
    Field(<<"url">>, <<"url">>, TStr, TRUE, FALSE, None, FALSE),
    Field(<<"description">>, <<"description">>, TStr, FALSE, TRUE, None, FALSE),
    Field(<<"variables">>, <<"variables">>, TDict(TStr, TModel("ServerVariable")), FALSE, TRUE, None, FALSE) >>
    [] cls = "Info" -> <<
    Field(<<"title">>, <<"title">>, TStr, TRUE, FALSE, None, FALSE),
    Field(<<"version">>, <<"version">>, TStr, TRUE, FALSE, None, FALSE),
    Field(<<"contact">>, <<"contact">>, TModel("Contact"), FALSE, TRUE, None, FALSE),
    Field(<<"description">>, <<"description">>, TStr, FALSE, TRUE, None, FALSE),
    Field(<<"termsOfService">>, <<"termsOfService">>, TStr, FALSE, TRUE, None, FALSE),
    Field(<<"license">>, <<"license">>, TModel("License"), FALSE, TRUE, None, FALSE) >>
    [] cls = "Discriminator" -> <<
    Field(<<"propertyName">>, <<"propertyName">>, TStr, TRUE, FALSE, None, FALSE),
    Field(<<"mapping">>, <<"mapping">>, TDict(TStr, TStr), FALSE, TRUE, None, FALSE) >>
    [] cls = "XML" -> <<
    Field(<<"name">>, <<"name">>, TStr, FALSE, TRUE, None, FALSE),
    Field(<<"namespace">>, <<"namespace">>, TStr, FALSE, TRUE, None, FALSE),
    Field(<<"prefix">>, <<"prefix">>, TStr, FALSE, TRUE, None, FALSE),
    Field(<<"attribute">>, <<"attribute">>, TBool, FALSE, TRUE, None, FALSE),
    Field(<<"wrapped">>, <<"wrapped">>, TBool, FALSE, TRUE, None, FALSE) >>
    [] cls = "Schema" -> <<
    Field(<<"type">>, <<"type">>, TEnum("SchemaType"), FALSE, TRUE, None, FALSE),
    Field(<<"properties">>, <<"properties">>, TDict(TStr, TModel("Schema")), FALSE, TRUE, None, FALSE),
    Field(<<"items">>, <<"items">>, TModel("Schema"), FALSE, TRUE, None, FALSE),
    Field(<<"required">>, <<"required">>, TList(TStr), FALSE, TRUE, None, FALSE),
    Field(<<"readOnly">>, <<"readOnly">>, TBool, FALSE, TRUE, None, FALSE),
    Field(<<"writeOnly">>, <<"writeOnly">>, TBool, FALSE, TRUE, None, FALSE),
    Field(<<"nullable">>, <<"nullable">>, TBool, FALSE, TRUE, None, FALSE),
    Field(<<"deprecated">>, <<"deprecated">>, TBool, FALSE, TRUE, None, FALSE),
    Field(<<"externalDocs">>, <<"externalDocs">>, TModel("ExternalDocumentation"), FALSE, TRUE, None, FALSE),
    Field(<<"example">>, <<"example">>, TAny, FALSE, TRUE, None, FALSE),
    Field(<<"discriminator">>, <<"discriminator">>, TModel("Discriminator"), FALSE, TRUE, None, FALSE),
    Field(<<"xml">>, <<"xml">>, TModel("XML"), FALSE, TRUE, None, FALSE),
    Field(<<"minimum">>, <<"minimum">>, TInt, FALSE, TRUE, None, FALSE),
    Field(<<"exclusiveMinimum">>, <<"exclusiveMinimum">>, TInt, FALSE, TRUE, None, FALSE),
    Field(<<"maximum">>, <<"maximum">>, TInt, FALSE, TRUE, None, FALSE),
    Field(<<"exclusiveMaximum">>, <<"exclusiveMaximum">>, TInt, FALSE, TRUE, None, FALSE),
    Field(<<"maxLength">>, <<"maxLength">>, TInt, FALSE, TRUE, None, FALSE),
    Field(<<"minLength">>, <<"minLength">>, TInt, FALSE, TRUE, None, FALSE),
    Field(<<"pattern">>, <<"pattern">>, TStr, FALSE, TRUE, None, FALSE),
    Field(<<"maxItems">>, <<"maxItems">>, TInt, FALSE, TRUE, None, FALSE),
    Field(<<"minItems">>, <<"minItems">>, TInt, FALSE, TRUE, None, FALSE),
    Field(<<"maxProperties">>, <<"maxProperties">>, TInt, FALSE, TRUE, None, FALSE),
    Field(<<"minProperties">>, <<"minProperties">>, TInt, FALSE, TRUE, None, FALSE),
    Field(<<"uniqueItems">>, <<"uniqueItems">>, TBool, FALSE, TRUE, None, FALSE),
    Field(<<"enum">>, <<"enum">>, TSeq(TStr), FALSE, TRUE, None, FALSE),
    Field(<<"format">>, <<"format">>, TEnum("PropertyFormat"), FALSE, TRUE, None, FALSE),
    Field(<<"title">>, <<"title">>, TStr, FALSE, TRUE, None, FALSE),
    Field(<<"description">>, <<"description">>, TStr, FALSE, TRUE, None, FALSE),
    Field(<<"additionalProperties">>, <<"additionalProperties">>, TUnion(<<TBool, TModel("Schema")>>), FALSE, TRUE, None, FALSE),
    Field(<<"default">>, <<"default">>, TAny, FALSE, TRUE, None, FALSE),
    Field(<<"allOf">>, <<"allOf">>, TSeq(TModel("Schema")), FALSE, TRUE, None, FALSE),
    Field(<<"anyOf">>, <<"anyOf">>, TSeq(TModel("Schema")), FALSE, TRUE, None, FALSE),
    Field(<<"oneOf">>, <<"oneOf">>, TSeq(TModel("Schema")), FALSE, TRUE, None, FALSE),
    Field(<<"not", "_">>, <<"not">>, TModel("Schema"), FALSE, TRUE, None, FALSE),
    Field(<<"multipleOf">>, <<"multipleOf">>, TInt, FALSE, TRUE, None, FALSE) >>
    [] cls = "Parameter" -> <<
    Field(<<"name">>, <<"name">>, TStr, TRUE, FALSE, None, FALSE),
    Field(<<"in", "_">>, <<"in", "_">>, TEnum("InParameterChoice"), TRUE, FALSE, None, FALSE),
    Field(<<"required">>, <<"required">>, TBool, FALSE, FALSE, BoolV(FALSE), FALSE),
    Field(<<"description">>, <<"description">>, TStr, FALSE, TRUE, None, FALSE),
    Field(<<"allowEmptyValue">>, <<"allowEmptyValue">>, TBool, FALSE, FALSE, BoolV(FALSE), FALSE),
    Field(<<"deprecated">>, <<"deprecated">>, TBool, FALSE, TRUE, None, FALSE),
    Field(<<"schema", "_">>, <<"schema">>, TModel("Schema"), FALSE, TRUE, None, FALSE),
    Field(<<"style">>, <<"style">>, TStr, FALSE, TRUE, None, FALSE),
    Field(<<"explode">>, <<"explode">>, TBool, FALSE, TRUE, None, FALSE),
    Field(<<"allowReserved">>, <<"allowReserved">>, TBool, FALSE, TRUE, None, FALSE),
    Field(<<"example">>, <<"example">>, TAny, FALSE, TRUE, None, FALSE),
    Field(<<"examples">>, <<"examples">>, TDict(TStr, TModel("Example")), FALSE, TRUE, None, FALSE) >>
    [] cls = "Header" -> <<
    Field(<<"required">>, <<"required">>, TBool, FALSE, FALSE, BoolV(FALSE), FALSE),
    Field(<<"description">>, <<"description">>, TStr, FALSE, TRUE, None, FALSE),
    Field(<<"allowEmptyValue">>, <<"allowEmptyValue">>, TBool, FALSE, FALSE, BoolV(FALSE), FALSE),
    Field(<<"schema", "_">>, <<"schema">>, TModel("Schema"), FALSE, TRUE, None, FALSE),
    Field(<<"example">>, <<"example">>, TAny, FALSE, TRUE, None, FALSE),
    Field(<<"examples">>, <<"examples">>, TDict(TStr, TModel("Example")), FALSE, TRUE, None, FALSE) >>
    [] cls = "Encoding" -> <<
    Field(<<"contentType">>, <<"contentType">>, TUnion(<<TEnum("ContentType"), TStr>>), FALSE, TRUE, None, FALSE),
    Field(<<"headers">>, <<"headers">>, TDict(TStr, TModel("Header")), FALSE, TRUE, None, FALSE),
    Field(<<"style">>, <<"style">>, TStr, FALSE, TRUE, None, FALSE),
    Field(<<"explode">>, <<"explode">>, TBool, FALSE, TRUE, None, FALSE),
    Field(<<"allowReserved">>, <<"allowReserved">>, TBool, FALSE, TRUE, None, FALSE) >>
    [] cls = "MediaType" -> <<
    Field(<<"schema", "_">>, <<"schema">>, TModel("Schema"), TRUE, FALSE, None, FALSE),
    Field(<<"example">>, <<"example">>, TAny, FALSE, TRUE, None, FALSE),
    Field(<<"examples">>, <<"examples">>, TDict(TStr, TModel("Example")), FALSE, TRUE, None, FALSE),
    Field(<<"encoding">>, <<"encoding">>, TDict(TStr, TModel("Encoding")), FALSE, TRUE, None, FALSE) >>
    [] cls = "Link" -> <<
    Field(<<"operationRef">>, <<"operationRef">>, TStr, FALSE, TRUE, None, FALSE),
    Field(<<"operationId">>, <<"operationId">>, TStr, FALSE, TRUE, None, FALSE),
    Field(<<"parameters">>, <<"parameters">>, TDict(TStr, TAny), FALSE, TRUE, None, FALSE),
    Field(<<"requestBody">>, <<"requestBody">>, TAny, FALSE, TRUE, None, FALSE),
    Field(<<"description">>, <<"description">>, TStr, FALSE, TRUE, None, FALSE),
    Field(<<"server">>, <<"server">>, TModel("Server"), FALSE, TRUE, None, FALSE) >>
    [] cls = "Response" -> <<
    Field(<<"description">>, <<"description">>, TStr, TRUE, FALSE, None, FALSE),
    Field(<<"headers">>, <<"headers">>, TDict(TStr, TModel("Header")), FALSE, TRUE, None, FALSE),
    Field(<<"links">>, <<"links">>, TDict(TStr, TModel("Link")), FALSE, TRUE, None, FALSE),
    Field(<<"content">>, <<"content">>, TDict(TUnion(<<TEnum("ContentType"), TStr>>), TModel("MediaType")), FALSE, TRUE, None, FALSE) >>
    [] cls = "RequestBody" -> <<
    Field(<<"content">>, <<"content">>, TDict(TUnion(<<TEnum("ContentType"), TStr>>), TModel("MediaType")), TRUE, FALSE, None, FALSE),
    Field(<<"description">>, <<"description">>, TStr, FALSE, TRUE, None, FALSE),
    Field(<<"required">>, <<"required">>, TBool, FALSE, FALSE, BoolV(FALSE), FALSE) >>
    [] cls = "Callback" -> << >>
    [] cls = "SecurityRequirement" -> << >>
    [] cls = "Operation" -> <<
    Field(<<"responses">>, <<"responses">>, TDict(TInt, TModel("Response")), TRUE, FALSE, None, FALSE),
    Field(<<"operationId">>, <<"operationId">>, TStr, FALSE, TRUE, None, FALSE),
    Field(<<"requestBody">>, <<"requestBody">>, TModel("RequestBody"), FALSE, TRUE, None, FALSE),
    Field(<<"tags">>, <<"tags">>, TSeq(TStr), FALSE, TRUE, None, FALSE),
    Field(<<"parameters">>, <<"parameters">>, TSeq(TModel("Parameter")), FALSE, TRUE, None, FALSE),
    Field(<<"summary">>, <<"summary">>, TStr, FALSE, TRUE, None, FALSE),
    Field(<<"description">>, <<"description">>, TStr, FALSE, TRUE, None, FALSE),
    Field(<<"externalDocs">>, <<"externalDocs">>, TModel("ExternalDocumentation"), FALSE, TRUE, None, FALSE),
    Field(<<"deprecated">>, <<"deprecated">>, TBool, FALSE, FALSE, BoolV(FALSE), FALSE),
    Field(<<"servers">>, <<"servers">>, TSeq(TModel("Server")), FALSE, TRUE, None, FALSE),
    Field(<<"callbacks">>, <<"callbacks">>, TDict(TStr, TModel("Callback")), FALSE, TRUE, None, FALSE),
    Field(<<"security">>, <<"security">>, TList(TModel("SecurityRequirement")), FALSE, TRUE, None, FALSE) >>
    [] cls = "Path" -> <<
    Field(<<"summary">>, <<"summary">>, TStr, FALSE, TRUE, None, FALSE),
    Field(<<"description">>, <<"description">>, TStr, FALSE, TRUE, None, FALSE),
    Field(<<"get">>, <<"get">>, TModel("Operation"), FALSE, TRUE, None, FALSE),
    Field(<<"put">>, <<"put">>, TModel("Operation"), FALSE, TRUE, None, FALSE),
    Field(<<"post">>, <<"post">>, TModel("Operation"), FALSE, TRUE, None, FALSE),
    Field(<<"delete">>, <<"delete">>, TModel("Operation"), FALSE, TRUE, None, FALSE),
    Field(<<"options">>, <<"options">>, TModel("Operation"), FALSE, TRUE, None, FALSE),
    Field(<<"head">>, <<"head">>, TModel("Operation"), FALSE, TRUE, None, FALSE),
    Field(<<"patch">>, <<"patch">>, TModel("Operation"), FALSE, TRUE, None, FALSE),
    Field(<<"trace">>, <<"trace">>, TModel("Operation"), FALSE, TRUE, None, FALSE),
    Field(<<"servers">>, <<"servers">>, TSeq(TModel("Server")), FALSE, TRUE, None, FALSE),
    Field(<<"parameters">>, <<"parameters">>, TSeq(TModel("Parameter")), FALSE, TRUE, None, FALSE) >>
    [] cls = "OauthFlow" -> <<
    Field(<<"authorizationUrl">>, <<"authorizationUrl">>, TStr, FALSE, TRUE, None, FALSE),
    Field(<<"tokenUrl">>, <<"tokenUrl">>, TStr, FALSE, TRUE, None, FALSE),
    Field(<<"refreshUrl">>, <<"refreshUrl">>, TStr, FALSE, TRUE, None, FALSE),
    Field(<<"scopes">>, <<"scopes">>, TDict(TStr, TStr), FALSE, TRUE, None, FALSE) >>
    [] cls = "OauthFlows" -> <<
    Field(<<"implicit">>, <<"implicit">>, TModel("OauthFlow"), FALSE, TRUE, None, FALSE),
    Field(<<"password">>, <<"password">>, TModel("OauthFlow"), FALSE, TRUE, None, FALSE),
    Field(<<"clientCredentials">>, <<"clientCredentials">>, TModel("OauthFlow"), FALSE, TRUE, None, FALSE),
    Field(<<"authorizationCode">>, <<"authorizationCode">>, TModel("OauthFlow"), FALSE, TRUE, None, FALSE) >>
    [] cls = "SecurityScheme" -> <<
    Field(<<"type">>, <<"type">>, TEnum("SecuritySchemeChoice"), TRUE, FALSE, None, FALSE),
    Field(<<"name">>, <<"name">>, TStr, FALSE, TRUE, None, FALSE),
    Field(<<"in", "_">>, <<"in">>, TEnum("InSecuritySchemeChoice"), FALSE, TRUE, None, FALSE),
    Field(<<"scheme">>, <<"scheme">>, TStr, FALSE, TRUE, None, FALSE),
    Field(<<"bearerFormat">>, <<"bearerFormat">>, TStr, FALSE, TRUE, None, FALSE),
    Field(<<"flows">>, <<"flows">>, TModel("OauthFlows"), FALSE, TRUE, None, FALSE),
    Field(<<"openIdConnectUrl">>, <<"openIdConnectUrl">>, TStr, FALSE, TRUE, None, FALSE),
    Field(<<"description">>, <<"description">>, TStr, FALSE, TRUE, None, FALSE) >>
    [] cls = "Components" -> <<
    Field(<<"schemas">>, <<"schemas">>, TDict(TStr, TModel("Schema")), FALSE, TRUE, None, FALSE),
    Field(<<"responses">>, <<"responses">>, TDict(TStr, TModel("Response")), FALSE, TRUE, None, FALSE),
    Field(<<"parameters">>, <<"parameters">>, TDict(TStr, TModel("Parameter")), FALSE, TRUE, None, FALSE),
    Field(<<"examples">>, <<"examples">>, TDict(TStr, TModel("Example")), FALSE, TRUE, None, FALSE),
    Field(<<"requestBodies">>, <<"requestBodies">>, TDict(TStr, TModel("RequestBody")), FALSE, TRUE, None, FALSE),
    Field(<<"headers">>, <<"headers">>, TDict(TStr, TModel("Header")), FALSE, TRUE, None, FALSE),
    Field(<<"securitySchemes">>, <<"securitySchemes">>, TDict(TStr, TModel("SecurityScheme")), FALSE, TRUE, None, FALSE),
    Field(<<"links">>, <<"links">>, TDict(TStr, TModel("Link")), FALSE, TRUE, None, FALSE),
    Field(<<"callbacks">>, <<"callbacks">>, TDict(TStr, TModel("Callback")), FALSE, TRUE, None, FALSE) >>
    [] cls = "OpenAPI" -> <<
    Field(<<"info">>, <<"info">>, TModel("Info"), TRUE, FALSE, None, FALSE),
    Field(<<"paths">>, <<"paths">>, TDict(TStr, TModel("Path")), TRUE, FALSE, None, FALSE),
    Field(<<"openapi">>, <<"openapi">>, TStr, FALSE, FALSE, StrV(<<"3.0.1">>), FALSE),
    Field(<<"tags">>, <<"tags">>, TSeq(TModel("Tag")), FALSE, TRUE, None, FALSE),
    Field(<<"externalDocs">>, <<"externalDocs">>, TModel("ExternalDocumentation"), FALSE, TRUE, None, FALSE),
    Field(<<"servers">>, <<"servers">>, TList(TModel("Server")), FALSE, FALSE, None, TRUE),
    Field(<<"security">>, <<"security">>, TModel("SecurityRequirement"), FALSE, TRUE, None, FALSE),
    Field(<<"components">>, <<"components">>, TModel("Components"), FALSE, TRUE, None, FALSE) >>

om_classes ==
  { "Example", "ExternalDocumentation", "Tag", "Contact", "License",
    "ServerVariable", "Server", "Info", "Discriminator", "XML", "Schema",
    "Parameter", "Header", "Encoding", "MediaType", "Link", "Response",
    "RequestBody", "Callback", "SecurityRequirement", "Operation", "Path",
    "OauthFlow", "OauthFlows", "SecurityScheme", "Components", "OpenAPI" }

-----------------------------------------------------------------------------
(* openapi_om: construction (pydantic's validate_model). *)

\* Schema.map_not_name (root_validator, pre=True)
map_not_name(values) ==
  IF HasKey(values, StrKey(<<"not">>))
  THEN Rekey(values, StrKey(<<"not">>), StrKey(<<"not", "_">>))
  ELSE values

\* Parameter.map_in_name and SecurityScheme.map_in_name (root_validator, pre=True)
map_in_name(values) ==
  IF HasKey(values, StrKey(<<"in">>))
  THEN Rekey(values, StrKey(<<"in">>), StrKey(<<"in", "_">>))
  ELSE values

\* The pre root validators a class declares, applied to the input mapping.
pre_root_validators(cls, values) ==
  CASE cls = "Schema" -> map_not_name(values)
    [] cls = "Parameter" -> map_in_name(values)
    [] cls = "SecurityScheme" -> map_in_name(values)
    [] OTHER -> values

KeyToValue(key) ==
  CASE key.kt = "str" -> StrV(key.s)
    [] key.kt = "enum" -> EnumV(key.cls, key.name)
    [] key.kt = "int" -> IntV(key.n)

ValueToKey(v) ==
  CASE v.t = "str" -> StrKey(v.s)
    [] v.t = "enum" -> EnumKey(v.cls, v.name)
    [] v.t = "int" -> IntKey(v.n)

RECURSIVE construct(_, _)
RECURSIVE validate(_, _, _)

\* OpenAPI.servers: default_factory=lambda: [Server(url="/", description="Default server")]
default_servers ==
  ListV(<< construct("Server",
                     << Item(StrKey(<<"url">>), StrV(<<"/">>)),
                        Item(StrKey(<<"description">>), StrV(<<"Default server">>)) >>) >>)

\* Mutant: the default_factory is ignored, the field gets its declared default.
get_default_declared(f) == f.default

\* The value of a field that was not given: default_factory() or the default.
get_default(f) == IF f.factory THEN default_servers ELSE f.default

\* The enum member a value stands for: the member itself or its value.
validate_enum(cls, v) ==
  IF v.t = "enum" /\ v.cls = cls THEN v
  ELSE IF v.t = "str" /\ \E m \in EnumMembers(cls) : EnumValue(cls, m) = v.s
       THEN EnumV(cls, CHOOSE m \in EnumMembers(cls) : EnumValue(cls, m) = v.s)
       ELSE Error("ValidationError")

\* A mapping field: keys and values are validated one by one into a new dict.
RECURSIVE validate_mapping(_, _, _, _)
validate_mapping(T, items, i, acc) ==
  IF i > Len(items) THEN DictV(acc)
  ELSE LET key == validate(T.key, FALSE, KeyToValue(items[i].k))
           val == validate(T.of, FALSE, items[i].v)
       IN  IF IsError(key) \/ IsError(val) THEN Error("ValidationError")
           ELSE validate_mapping(T, items, i + 1,
                                 SetItem(acc, ValueToKey(key), Item(ValueToKey(key), val)))

\* A Union field: the first alternative that accepts the value.
RECURSIVE validate_union(_, _, _)
validate_union(alts, i, v) ==
  IF i > Len(alts) THEN Error("ValidationError")
  ELSE LET r == validate(alts[i], FALSE, v)
       IN  IF IsError(r) THEN validate_union(alts, i + 1, v) ELSE r

validate(T, optional, v) ==
  IF IsError(v) THEN v
  ELSE IF T.k = "any" THEN v
  ELSE IF v = None THEN IF optional THEN None ELSE Error("ValidationError")
  ELSE CASE T.k \in {"str", "bool", "int"} ->
              IF v.t = T.k THEN v ELSE Error("ValidationError")
         [] T.k = "enum" -> validate_enum(T.cls, v)
         [] T.k = "model" ->
              IF v.t = "model" /\ v.cls = T.cls THEN v
              ELSE IF v.t = "dict" THEN construct(T.cls, v.items)
              ELSE Error("ValidationError")
         [] T.k \in {"list", "seq"} ->
              IF v.t \in {"list", "tuple"}
              THEN LET xs == [i \in DOMAIN v.items |-> validate(T.of, FALSE, v.items[i])]
                   IN  IF AnyError(xs) THEN Error("ValidationError")
                       ELSE IF T.k = "seq" /\ v.t = "tuple" THEN TupleV(xs)
                       ELSE ListV(xs)
              ELSE Error("ValidationError")
         [] T.k = "dict" ->
              IF v.t = "dict" THEN validate_mapping(T, v.items, 1, <<>>)
              ELSE Error("ValidationError")
         [] T.k = "union" -> validate_union(T.alts, 1, v)

\* The value of one field: the input is looked up under the field's alias.
field_value(f, data) ==
  IF HasKey(data, StrKey(f.alias))
  THEN validate(f.type, f.optional, GetItem(data, StrKey(f.alias)).v)
  ELSE IF f.required THEN Error("ValidationError")
  ELSE get_default(f)

\* cls(**kwargs): the instance, or the ValidationError raised.
construct(cls, input) ==
  LET data == pre_root_validators(cls, input)
      fs == om_fields(cls)
      vals == [i \in DOMAIN fs |-> field_value(fs[i], data)]
  IN  IF AnyError(vals) THEN Error("ValidationError")
      ELSE ModelV(cls, [i \in DOMAIN fs |-> Item(StrKey(fs[i].name), vals[i])])

-----------------------------------------------------------------------------
(* openapi_om: dict(exclude_none=True, by_alias=True). *)

RECURSIVE dict_(_)

\* A serialized mapping, or the error raised while one of its values was serialized.
DictOrError(items) ==
  IF AnyItemError(items) THEN Error("AttributeError") ELSE DictV(items)

SeqOrError(v, items) ==
  IF AnyError(items) THEN Error("AttributeError") ELSE [v EXCEPT !.items = items]

\* BaseModel._get_value: nested records through their own dict(), mappings
\* and sequences element by element, everything else as it is.
RECURSIVE get_value(_)
get_value(v) ==
  CASE v.t = "model" -> dict_(v)
    [] v.t = "dict" ->
         DictOrError([i \in DOMAIN v.items |-> Item(v.items[i].k, get_value(v.items[i].v))])
    [] v.t \in {"list", "tuple"} ->
         SeqOrError(v, [i \in DOMAIN v.items |-> get_value(v.items[i])])
    [] OTHER -> v

\* Mutant: a field is emitted when its value is truthy ("" counts as unset).
emitted_truthy(v) == v # None /\ v # StrV(<<>>)

\* exclude_none: a field is emitted when its value is not None.
emitted(v) == v # None

\* Mutant: by_alias is off, a field is emitted under its name.
dict_key_by_name(f) == StrKey(f.name)

\* by_alias: a field is emitted under its alias.
dict_key(f) == StrKey(f.alias)

\* BaseModel._iter: the entries of the fields fs from the i-th on.
RECURSIVE iter_(_, _, _)
iter_(fs, items, i) ==
  IF i > Len(fs) THEN <<>>
  ELSE IF ~emitted(items[i].v) THEN iter_(fs, items, i + 1)
  ELSE << Item(dict_key(fs[i]), get_value(items[i].v)) >> \o iter_(fs, items, i + 1)

\* BaseModel.dict(exclude_none=True, by_alias=True)
BaseModel_dict(self) == DictOrError(iter_(om_fields(self.cls), self.items, 1))

\* result["in"] = result.pop("in_")
pop_in_(result) ==
  IF IsError(result) THEN result
  ELSE IF ~HasKey(result.items, StrKey(<<"in", "_">>)) THEN Error("KeyError")
  ELSE DictV(Rekey(result.items, StrKey(<<"in", "_">>), StrKey(<<"in">>)))

\* Parameter.dict
Parameter_dict(self) == pop_in_(BaseModel_dict(self))

RECURSIVE content_by_value(_, _, _)
RECURSIVE content_by_name(_, _, _)

\* Mutant: {str(key.name): value for key, value in content.items()}
content_by_name(items, i, acc) ==
  IF i > Len(items) THEN DictV(acc)
  ELSE IF items[i].k.kt # "enum" THEN Error("AttributeError")
  ELSE content_by_name(items, i + 1,
         SetItem(acc, StrKey(<<items[i].k.name>>),
                 Item(StrKey(<<items[i].k.name>>), items[i].v)))

\* {str(key.value): value for key, value in content.items()}
content_by_value(items, i, acc) ==
  IF i > Len(items) THEN DictV(acc)
  ELSE IF items[i].k.kt # "enum" THEN Error("AttributeError")
  ELSE content_by_value(items, i + 1,
         SetItem(acc, StrKey(EnumValue(items[i].k.cls, items[i].k.name)),
                 Item(StrKey(EnumValue(items[i].k.cls, items[i].k.name)), items[i].v)))

\* result["content"] = content
with_content(result, content) ==
  IF IsError(content) THEN content
  ELSE DictV(SetItem(result.items, StrKey(<<"content">>),
                     Item(StrKey(<<"content">>), content)))

set_content(result) ==
  with_content(result,
    content_by_value(GetItem(result.items, StrKey(<<"content">>)).v.items, 1, <<>>))

\* if result.get("content") is not None: result["content"] = {...}
Response_content(result) ==
  IF IsError(result) THEN result
  ELSE IF HasKey(result.items, StrKey(<<"content">>)) THEN set_content(result)
  ELSE result

\* Response.dict
Response_dict(self) == Response_content(BaseModel_dict(self))

\* result["content"] = {...}
RequestBody_content(result) ==
  IF IsError(result) THEN result
  ELSE IF ~HasKey(result.items, StrKey(<<"content">>)) THEN Error("KeyError")
  ELSE set_content(result)

\* RequestBody.dict
RequestBody_dict(self) == RequestBody_content(BaseModel_dict(self))

\* self.dict(exclude_none=True, by_alias=True), through the class's override.
dict_(self) ==
  CASE self.cls = "Parameter" -> Parameter_dict(self)
    [] self.cls = "Response" -> Response_dict(self)
    [] self.cls = "RequestBody" -> RequestBody_dict(self)
    [] OTHER -> BaseModel_dict(self)

-----------------------------------------------------------------------------
(* The inputs of remove_nulls: the caller builds an object of at most       *)
(* MaxNodes nodes, one insertion (obj[k] = leaf, list.append(leaf)) at a    *)
(* time.                                                                    *)

\* json.dumps(obj, cls=Encoder), as the JSON document it writes. A str key is
\* kept, an int key is written as its decimal string and a None key as "null";
\* any other key (an enum member that remove_nulls did not reach, a tuple)
\* raises TypeError.
json_key(key) ==
  CASE key.kt = "str" -> key
    [] key.kt = "int" -> StrKey(<<ToString(key.n)>>)
    [] key.kt = "none" -> StrKey(<<"null">>)
    [] OTHER -> [kt |-> "error"]

json_object(items) ==
  IF \E i \in DOMAIN items : items[i].k.kt = "error" \/ items[i].v.t = "error"
  THEN [t |-> "error", kind |-> "TypeError"]
  ELSE DictV(items)

json_array(items) ==
  IF \E i \in DOMAIN items : items[i].t = "error"
  THEN [t |-> "error", kind |-> "TypeError"]
  ELSE ListV(items)

\* Encoder.default turns an enum member into its value; lists and tuples are
\* both written as arrays.
RECURSIVE json_dumps(_)
json_dumps(o) ==
  CASE o.t = "dict" ->
         json_object([i \in DOMAIN o.items |->
                        Item(json_key(o.items[i].k), json_dumps(o.items[i].v))])
    [] o.t \in {"list", "tuple"} ->
         json_array([i \in DOMAIN o.items |-> json_dumps(o.items[i])])
    [] o.t = "enum" -> StrV(EnumValue(o.cls, o.name))
    [] o.t \in {"none", "int", "str", "bool"} -> o
    [] OTHER -> [t |-> "error", kind |-> "TypeError"]

\* json.loads(text): objects become dicts with str keys, arrays lists.
RECURSIVE json_loads(_)
json_loads(text) ==
  CASE text.t = "dict" ->
         DictV([i \in DOMAIN text.items |->
                  Item(text.items[i].k, json_loads(text.items[i].v))])
    [] text.t = "list" -> ListV([i \in DOMAIN text.items |-> json_loads(text.items[i])])
    [] OTHER -> text

\* yaml.dump(obj): the YAML document. The entries of a mapping are written
\* sorted by key, so the document is the same for every order of the entries;
\* a tuple and an enum member are written with their python tags.
RECURSIVE yaml_dump(_)
yaml_dump(obj) ==
  CASE obj.t = "dict" ->
         [t |-> "mapping", tag |-> "map",
          entries |-> { Item(obj.items[i].k, yaml_dump(obj.items[i].v)) : i \in DOMAIN obj.items }]
    [] obj.t = "list" ->
         [t |-> "sequence", tag |-> "seq",
          items |-> [i \in DOMAIN obj.items |-> yaml_dump(obj.items[i])]]
    [] obj.t = "tuple" ->
         [t |-> "sequence", tag |-> "python/tuple",
          items |-> [i \in DOMAIN obj.items |-> yaml_dump(obj.items[i])]]
    [] obj.t = "enum" -> [t |-> "scalar", tag |-> "python/object/apply", value |-> obj]
    [] OTHER -> [t |-> "scalar", tag |-> obj.t, value |-> obj]

\* yaml.load(text): the value the document decodes to, a mapping as the set
\* of its entries.
RECURSIVE yaml_load(_)
yaml_load(node) ==
  CASE node.t = "mapping" ->
         [t |-> "dict", entries |-> { Item(e.k, yaml_load(e.v)) : e \in node.entries }]
    [] node.t = "sequence" ->
         [t |-> IF node.tag = "seq" THEN "list" ELSE "tuple",
          items |-> [i \in DOMAIN node.items |-> yaml_load(node.items[i])]]
    [] OTHER -> node.value

RawKeys ==
  { StrKey(<<"in">>), StrKey(<<"in", "_", "_">>), StrKey(<<"_", "in", "_">>),
    StrKey(<<"application/json">>), EnumKey("ContentType", "json"), NoneKey }

RawLeaves == { None, IntV(1), ListV(<<>>), TupleV(<<>>), DictV(<<>>) }

IsContainer(v) == v.t \in {"list", "tuple", "dict"}

\* The i-th child of a container.
Child(v, i) == IF v.t = "dict" THEN v.items[i].v ELSE v.items[i]

RECURSIVE Size(_)
Size(v) ==
  IF IsContainer(v)
  THEN LET RECURSIVE Sum(_)
           Sum(i) == IF i = 0 THEN 0 ELSE Size(Child(v, i)) + Sum(i - 1)
       IN  1 + Sum(Len(v.items))
  ELSE 1

\* The paths (sequences of child positions) to the containers of v.
RECURSIVE Paths(_)
Paths(v) ==
  IF IsContainer(v)
  THEN { <<>> } \cup
       UNION { { <<i>> \o p : p \in Paths(Child(v, i)) } : i \in DOMAIN v.items }
  ELSE {}

RECURSIVE NodeAt(_, _)
NodeAt(v, path) ==
  IF path = <<>> THEN v ELSE NodeAt(Child(v, Head(path)), Tail(path))

\* v with leaf inserted last into the container at path (under key k in a dict).
RECURSIVE Insert(_, _, _, _)
Insert(v, path, k, leaf) ==
  IF path = <<>>
  THEN IF v.t = "dict"
       THEN [v EXCEPT !.items = Append(@, Item(k, leaf))]
       ELSE [v EXCEPT !.items = Append(@, leaf)]
  ELSE IF v.t = "dict"
       THEN [v EXCEPT !.items[Head(path)].v = Insert(@, Tail(path), k, leaf)]
       ELSE [v EXCEPT !.items[Head(path)] = Insert(@, Tail(path), k, leaf)]

-----------------------------------------------------------------------------
(* openapy: the dataclass records of src/openapy/openapi.py.  Their classes *)
(* are named with the package, "openapy.Parameter".                         *)

py_fields(cls) ==
  CASE cls = "openapy.OpenAPI" -> <<
    Field(<<"info">>, <<"info">>, TModel("openapy.Info"), TRUE, FALSE, None, FALSE),
    Field(<<"paths">>, <<"paths">>, TDict(TStr, TModel("openapy.Path")), TRUE, FALSE, None, FALSE),
    Field(<<"openapi">>, <<"openapi">>, TStr, FALSE, FALSE, StrV(<<"3.0.1">>), FALSE),
    Field(<<"tags">>, <<"tags">>, TSeq(TModel("openapy.Tag")), FALSE, FALSE, TupleV(<<>>), FALSE),
    Field(<<"externalDocs">>, <<"externalDocs">>, TModel("openapy.ExternalDocumentation"), FALSE, TRUE, None, FALSE),
    Field(<<"servers">>, <<"servers">>, TSeq(TModel("openapy.Server")), FALSE, FALSE, None, TRUE) >>
    [] cls = "openapy.Info" -> <<
    Field(<<"title">>, <<"title">>, TStr, TRUE, FALSE, None, FALSE),
    Field(<<"version">>, <<"version">>, TStr, TRUE, FALSE, None, FALSE),
    Field(<<"contact">>, <<"contact">>, TModel("openapy.Contact"), FALSE, TRUE, None, FALSE),
    Field(<<"description">>, <<"description">>, TStr, FALSE, TRUE, None, FALSE),
    Field(<<"termsOfService">>, <<"termsOfService">>, TStr, FALSE, TRUE, None, FALSE),
    Field(<<"license">>, <<"license">>, TModel("openapy.License"), FALSE, TRUE, None, FALSE) >>
    [] cls = "openapy.Encoding" -> <<
    Field(<<"contentType">>, <<"contentType">>, TEnum("ContentType"), TRUE, FALSE, None, FALSE) >>
    [] cls = "openapy.MediaType" -> <<
    Field(<<"schema">>, <<"schema">>, TModel("openapy.Schema"), TRUE, FALSE, None, FALSE),
    Field(<<"examples">>, <<"examples">>, TAny, FALSE, TRUE, None, FALSE) >>
    [] cls = "openapy.Response" -> <<
    Field(<<"description">>, <<"description">>, TStr, TRUE, FALSE, None, FALSE),
    Field(<<"content">>, <<"content">>, TDict(TEnum("ContentType"), TModel("openapy.MediaType")), FALSE, TRUE, None, FALSE) >>
    [] cls = "openapy.Parameter" -> <<
    Field(<<"name">>, <<"name">>, TStr, TRUE, FALSE, None, FALSE),
    Field(<<"in", "_", "_">>, <<"in", "_", "_">>, TEnum("InParameterChoice"), TRUE, FALSE, None, FALSE),
    Field(<<"required">>, <<"required">>, TBool, FALSE, FALSE, BoolV(FALSE), FALSE),
    Field(<<"description">>, <<"description">>, TStr, FALSE, TRUE, None, FALSE),
    Field(<<"allowEmptyValue">>, <<"allowEmptyValue">>, TBool, FALSE, FALSE, BoolV(FALSE), FALSE),
    Field(<<"schema">>, <<"schema">>, TModel("openapy.Schema"), FALSE, TRUE, None, FALSE) >>
    [] cls = "openapy.RequestBody" -> <<
    Field(<<"description">>, <<"description">>, TStr, TRUE, FALSE, None, FALSE),
    Field(<<"content">>, <<"content">>, TDict(TEnum("ContentType"), TModel("openapy.MediaType")), TRUE, FALSE, None, FALSE),
    Field(<<"required">>, <<"required">>, TBool, FALSE, FALSE, BoolV(FALSE), FALSE) >>
    [] cls = "openapy.Operation" -> <<
    Field(<<"responses">>, <<"responses">>, TDict(TStr, TModel("openapy.Response")), TRUE, FALSE, None, FALSE),
    Field(<<"operationId">>, <<"operationId">>, TStr, FALSE, TRUE, None, FALSE),
    Field(<<"requestBody">>, <<"requestBody">>, TModel("openapy.RequestBody"), FALSE, TRUE, None, FALSE),
    Field(<<"tags">>, <<"tags">>, TSeq(TStr), FALSE, TRUE, None, FALSE),
    Field(<<"parameters">>, <<"parameters">>, TSeq(TModel("openapy.Parameter")), FALSE, TRUE, None, FALSE),
    Field(<<"summary">>, <<"summary">>, TStr, FALSE, TRUE, None, FALSE),
    Field(<<"description">>, <<"description">>, TStr, FALSE, TRUE, None, FALSE),
    Field(<<"externalDocs">>, <<"externalDocs">>, TModel("openapy.ExternalDocumentation"), FALSE, TRUE, None, FALSE),
    Field(<<"deprecated">>, <<"deprecated">>, TBool, FALSE, FALSE, BoolV(FALSE), FALSE),
    Field(<<"servers">>, <<"servers">>, TSeq(TModel("openapy.Server")), FALSE, TRUE, None, FALSE) >>
    [] cls = "openapy.Path" -> <<
    Field(<<"summary">>, <<"summary">>, TStr, FALSE, TRUE, None, FALSE),
    Field(<<"description">>, <<"description">>, TStr, FALSE, TRUE, None, FALSE),
    Field(<<"get">>, <<"get">>, TModel("openapy.Operation"), FALSE, TRUE, None, FALSE),
    Field(<<"put">>, <<"put">>, TModel("openapy.Operation"), FALSE, TRUE, None, FALSE),
    Field(<<"post">>, <<"post">>, TModel("openapy.Operation"), FALSE, TRUE, None, FALSE),
    Field(<<"delete">>, <<"delete">>, TModel("openapy.Operation"), FALSE, TRUE, None, FALSE),
    Field(<<"options">>, <<"options">>, TModel("openapy.Operation"), FALSE, TRUE, None, FALSE),
    Field(<<"head">>, <<"head">>, TModel("openapy.Operation"), FALSE, TRUE, None, FALSE),
    Field(<<"patch">>, <<"patch">>, TModel("openapy.Operation"), FALSE, TRUE, None, FALSE),
    Field(<<"trace">>, <<"trace">>, TModel("openapy.Operation"), FALSE, TRUE, None, FALSE),
    Field(<<"servers">>, <<"servers">>, TSeq(TModel("openapy.Server")), FALSE, TRUE, None, FALSE),
    Field(<<"parameters">>, <<"parameters">>, TSeq(TModel("openapy.Parameter")), FALSE, TRUE, None, FALSE) >>
    [] cls = "openapy.Tag" -> <<
    Field(<<"name">>, <<"name">>, TStr, TRUE, FALSE, None, FALSE),
    Field(<<"description">>, <<"description">>, TStr, FALSE, FALSE, StrV(<<>>), FALSE) >>
    [] cls = "openapy.Server" -> <<
    Field(<<"url">>, <<"url">>, TStr, TRUE, FALSE, None, FALSE),
    Field(<<"description">>, <<"description">>, TStr, FALSE, FALSE, StrV(<<>>), FALSE) >>
    [] cls = "openapy.Contact" -> <<
    Field(<<"name">>, <<"name">>, TStr, FALSE, TRUE, None, FALSE),
    Field(<<"email">>, <<"email">>, TStr, FALSE, TRUE, None, FALSE),
    Field(<<"url">>, <<"url">>, TStr, FALSE, TRUE, None, FALSE) >>
    [] cls = "openapy.License" -> <<
    Field(<<"name">>, <<"name">>, TStr, TRUE, FALSE, None, FALSE),
    Field(<<"url">>, <<"url">>, TStr, FALSE, TRUE, None, FALSE) >>
    [] cls = "openapy.ExternalDocumentation" -> <<
    Field(<<"url">>, <<"url">>, TStr, TRUE, FALSE, None, FALSE),
    Field(<<"name">>, <<"name">>, TStr, FALSE, TRUE, None, FALSE) >>
    [] cls = "openapy.Schema" -> <<
    Field(<<"type">>, <<"type">>, TEnum("SchemaType"), TRUE, FALSE, None, FALSE),
    Field(<<"properties">>, <<"properties">>, TDict(TStr, TModel("openapy.Schema")), FALSE, TRUE, None, FALSE),
    Field(<<"items">>, <<"items">>, TModel("openapy.Schema"), FALSE, TRUE, None, FALSE),
    Field(<<"required">>, <<"required">>, TList(TStr), FALSE, TRUE, None, FALSE),
    Field(<<"readOnly">>, <<"readOnly">>, TBool, FALSE, TRUE, None, FALSE),
    Field(<<"writeOnly">>, <<"writeOnly">>, TBool, FALSE, TRUE, None, FALSE),
    Field(<<"nullable">>, <<"nullable">>, TBool, FALSE, TRUE, None, FALSE),
    Field(<<"minimum">>, <<"minimum">>, TInt, FALSE, TRUE, None, FALSE),
    Field(<<"format">>, <<"format">>, TEnum("PropertyFormat"), FALSE, TRUE, None, FALSE),
    Field(<<"enum">>, <<"enum">>, TSeq(TStr), FALSE, TRUE, None, FALSE),
    Field(<<"description">>, <<"description">>, TStr, FALSE, TRUE, None, FALSE) >>
    [] cls = "openapy.schema.Schema" -> <<
    Field(<<"type">>, <<"type">>, TEnum("SchemaType"), TRUE, FALSE, None, FALSE),
    Field(<<"properties">>, <<"properties">>, TDict(TStr, TModel("openapy.schema.Schema")), FALSE, TRUE, None, FALSE),
    Field(<<"items">>, <<"items">>, TModel("openapy.schema.Schema"), FALSE, TRUE, None, FALSE),
    Field(<<"required">>, <<"required">>, TList(TStr), FALSE, TRUE, None, FALSE),
    Field(<<"readOnly">>, <<"readOnly">>, TBool, FALSE, TRUE, None, FALSE),
    Field(<<"writeOnly">>, <<"writeOnly">>, TBool, FALSE, TRUE, None, FALSE),
    Field(<<"nullable">>, <<"nullable">>, TBool, FALSE, TRUE, None, FALSE),
    Field(<<"minimum">>, <<"minimum">>, TInt, FALSE, TRUE, None, FALSE),
    Field(<<"format">>, <<"format">>, TEnum("PropertyFormat"), FALSE, TRUE, None, FALSE),
    Field(<<"enum">>, <<"enum">>, TSeq(TStr), FALSE, TRUE, None, FALSE),
    Field(<<"description">>, <<"description">>, TStr, FALSE, TRUE, None, FALSE) >>

py_classes ==
  { "openapy.OpenAPI", "openapy.Info", "openapy.Encoding", "openapy.MediaType",
    "openapy.Response", "openapy.Parameter", "openapy.RequestBody",
    "openapy.Operation", "openapy.Path", "openapy.Tag", "openapy.Server",
    "openapy.Contact", "openapy.License", "openapy.ExternalDocumentation",
    "openapy.Schema", "openapy.schema.Schema" }

\* The classes that derive from BaseNode and so have as_dict, as_json and
\* as_yaml; both Schema classes are plain dataclasses, serialized only as
\* part of a record that holds them.
BaseNode == py_classes \ { "openapy.Schema", "openapy.schema.Schema" }

RECURSIVE py_init(_, _)

\* OpenAPI.servers: default_factory=lambda: [Server(url="/", description="Default server")]
py_default_servers ==
  ListV(<< py_init("openapy.Server",
                   << Item(StrKey(<<"url">>), StrV(<<"/">>)),
                      Item(StrKey(<<"description">>), StrV(<<"Default server">>)) >>) >>)

py_default(f) == IF f.factory THEN py_default_servers ELSE f.default

\* The argument the caller's expression v denotes where a value of type T is
\* expected: a mapping where a record is expected is that record's
\* constructor call; nothing is validated or converted.
RECURSIVE py_argument(_, _)
py_argument(T, v) ==
  CASE T.k = "model" /\ v.t = "dict" -> py_init(T.cls, v.items)
    [] T.k \in {"list", "seq"} /\ v.t \in {"list", "tuple"} ->
         [v EXCEPT !.items = [i \in DOMAIN v.items |-> py_argument(T.of, v.items[i])]]
    [] T.k = "dict" /\ v.t = "dict" ->
         DictV([i \in DOMAIN v.items |->
                  Item(v.items[i].k, py_argument(T.of, v.items[i].v))])
    [] OTHER -> v

\* The value of one field in the generated __init__.
py_field_value(f, given) ==
  IF HasKey(given, StrKey(f.name))
  THEN py_argument(f.type, GetItem(given, StrKey(f.name)).v)
  ELSE IF f.required THEN Error("TypeError")
  ELSE py_default(f)

FieldOf(self, name) == GetItem(self.items, StrKey(name)).v

\* set(self.required) - set(self.properties.keys()) is not empty
unknown_required(required, properties) ==
  \E i \in DOMAIN required.items : ~HasKey(properties.items, ValueToKey(required.items[i]))

\* Schema._validate_object
validate_object(self) ==
  IF FieldOf(self, <<"properties">>) = None THEN Error("ValidationError")
  ELSE IF FieldOf(self, <<"required">>) = None THEN Error("ValidationError")
  ELSE IF unknown_required(FieldOf(self, <<"required">>), FieldOf(self, <<"properties">>))
  THEN Error("ValidationError")
  ELSE self

\* Schema._validate_object of schema.py: required is not tested for None
\* before set(self.required), which raises TypeError for None.
schema_validate_object(self) ==
  IF FieldOf(self, <<"properties">>) = None THEN Error("ValueError")
  ELSE IF FieldOf(self, <<"required">>) = None THEN Error("TypeError")
  ELSE IF unknown_required(FieldOf(self, <<"required">>), FieldOf(self, <<"properties">>))
  THEN Error("ValueError")
  ELSE self

\* Schema.__post_init__
post_init(self) ==
  IF self.cls \notin { "openapy.Schema", "openapy.schema.Schema" } THEN self
  ELSE IF FieldOf(self, <<"type">>) # EnumV("SchemaType", "object") THEN self
  ELSE IF self.cls = "openapy.Schema" THEN validate_object(self)
  ELSE schema_validate_object(self)

\* The argument of the i-th field raised while it was evaluated.
ArgumentRaised(fs, given, vals, i) ==
  HasKey(given, StrKey(fs[i].name)) /\ IsError(vals[i])

\* The record of the fields fs with the values vals; the error of the first
\* argument that raised; TypeError when a required argument is missing.
py_record(cls, fs, given, vals) ==
  IF \E i \in DOMAIN fs : ArgumentRaised(fs, given, vals, i)
  THEN vals[CHOOSE i \in DOMAIN fs :
              /\ ArgumentRaised(fs, given, vals, i)
              /\ \A j \in 1..(i - 1) : ~ArgumentRaised(fs, given, vals, j)]
  ELSE IF AnyError(vals) THEN Error("TypeError")
  ELSE post_init(ModelV(cls, [i \in DOMAIN fs |-> Item(StrKey(fs[i].name), vals[i])]))

py_values(fs, given) == [i \in DOMAIN fs |-> py_field_value(fs[i], given)]

\* cls(**given) of a dataclass: the generated __init__, then __post_init__.
py_init(cls, given) ==
  py_record(cls, py_fields(cls), given, py_values(py_fields(cls), given))

\* dataclasses.asdict: records become dicts keyed by field name; lists and
\* tuples keep their type; dict keys and all other values are copied.
RECURSIVE asdict(_)
asdict(obj) ==
  CASE obj.t = "model" ->
         DictV([i \in DOMAIN obj.items |-> Item(obj.items[i].k, asdict(obj.items[i].v))])
    [] obj.t \in {"list", "tuple"} ->
         [obj EXCEPT !.items = [i \in DOMAIN obj.items |-> asdict(obj.items[i])]]
    [] obj.t = "dict" ->
         DictV([i \in DOMAIN obj.items |-> Item(obj.items[i].k, asdict(obj.items[i].v))])
    [] OTHER -> obj

\* BaseNode.as_dict
as_dict(self) == remove_nulls(asdict(self))

\* remove_nulls applied to the record's own attribute dictionary instead of
\* a copy: the in-place changes are then the record's.
as_dict_in_place(self) ==
  [self |-> ModelV(self.cls, remove_nulls(DictV(self.items)).items),
   result |-> remove_nulls(asdict(self))]

\* A call of as_dict: the record as the call leaves it, and the returned
\* mapping. dataclasses.asdict builds new dicts, lists and tuples all the way
\* down, so remove_nulls changes nothing the record holds.
as_dict_call(self) == [self |-> self, result |-> as_dict(self)]

\* BaseNode.as_json
as_json(self) == json_dumps(as_dict(self))

\* Mutant: the mapping is handed to yaml.dump as as_dict returned it.
as_yaml_direct(self) == yaml_dump(as_dict(self))

\* BaseNode.as_yaml: yaml.dump of the decoded JSON text
as_yaml(self) ==
  IF IsError(as_json(self)) THEN as_json(self)
  ELSE yaml_dump(json_loads(as_json(self)))

-----------------------------------------------------------------------------
(* The caller's input.  A record is built from a mapping of keyword           *)
(* arguments; nested records are given as nested mappings, which pydantic     *)
(* turns into records by the same construction and which stand for the        *)
(* nested constructor calls of the dataclasses.  The caller starts from the    *)
(* required fields and supplies up to MaxSupplied further entries.             *)

\* The key a field has in the OpenAPI document.
om_public(cls, f) ==
  IF f.alias # f.name THEN f.alias
  ELSE IF cls = "Parameter" /\ f.name = <<"in", "_">> THEN <<"in">>
  ELSE f.name

IsRenamed(cls, f) == om_public(cls, f) # f.name

\* The optional fields the caller supplies in this model.
om_exercised(cls) ==
  CASE cls = "Example" -> { <<"summary">> }
    [] cls = "ExternalDocumentation" -> { <<"description">> }
    [] cls = "Tag" -> { <<"description">>, <<"externalDocs">> }
    [] cls = "Contact" -> { <<"name">>, <<"url">> }
    [] cls = "License" -> { <<"url">> }
    [] cls = "ServerVariable" -> { <<"description">> }
    [] cls = "Server" -> { <<"description">>, <<"variables">> }
    [] cls = "Info" -> { <<"contact">>, <<"license">> }
    [] cls = "Discriminator" -> { <<"mapping">> }
    [] cls = "XML" -> { <<"name">> }
    [] cls = "Schema" -> { <<"type">>, <<"properties">>, <<"nullable">>, <<"not", "_">> }
    [] cls = "Parameter" -> { <<"required">>, <<"schema", "_">> }
    [] cls = "Header" -> { <<"required">>, <<"schema", "_">> }
    [] cls = "Encoding" -> { <<"contentType">>, <<"headers">> }
    [] cls = "MediaType" -> { <<"example">> }
    [] cls = "Link" -> { <<"description">>, <<"server">> }
    [] cls = "Response" -> { <<"headers">>, <<"content">> }
    [] cls = "RequestBody" -> { <<"description">>, <<"required">> }
    [] cls = "Operation" -> { <<"requestBody">>, <<"parameters">>, <<"deprecated">> }
    [] cls = "Path" -> { <<"summary">>, <<"get">>, <<"parameters">> }
    [] cls = "OauthFlow" -> { <<"scopes">> }
    [] cls = "OauthFlows" -> { <<"implicit">> }
    [] cls = "SecurityScheme" -> { <<"name">>, <<"in", "_">>, <<"flows">> }
    [] cls = "Components" ->
         { <<"schemas">>, <<"responses">>, <<"parameters">>, <<"requestBodies">>,
           <<"headers">>, <<"securitySchemes">> }
    [] cls = "OpenAPI" ->
         { <<"openapi">>, <<"tags">>, <<"servers">>, <<"components">> }
    [] OTHER -> {}

\* The optional fields of the openapy records the caller supplies in this model.
py_exercised(cls) ==
  CASE cls = "openapy.OpenAPI" -> { <<"tags">>, <<"servers">> }
    [] cls = "openapy.Info" -> { <<"contact">> }
    [] cls = "openapy.MediaType" -> { <<"examples">> }
    [] cls = "openapy.Response" -> { <<"content">> }
    [] cls = "openapy.Parameter" -> { <<"description">>, <<"schema">> }
    [] cls = "openapy.RequestBody" -> { <<"required">> }
    [] cls = "openapy.Operation" -> { <<"requestBody">>, <<"tags">>, <<"parameters">> }
    [] cls = "openapy.Path" -> { <<"get">>, <<"parameters">> }
    [] cls = "openapy.Tag" -> { <<"description">> }
    [] cls = "openapy.Server" -> { <<"description">> }
    [] cls = "openapy.Contact" -> { <<"name">> }
    [] cls = "openapy.License" -> { <<"url">> }
    [] cls \in { "openapy.Schema", "openapy.schema.Schema" } ->
         { <<"properties">>, <<"items">>, <<"required">>, <<"nullable">> }
    [] OTHER -> {}

\* The field table and the supplied fields of a class of either package.
fields_of(cls) == IF cls \in py_classes THEN py_fields(cls) ELSE om_fields(cls)

exercised(cls) == IF cls \in py_classes THEN py_exercised(cls) ELSE om_exercised(cls)

\* The member of an enum the caller uses.
SampleMember(cls) ==
  CASE cls = "SchemaType" -> "integer"
    [] cls = "PropertyFormat" -> "long"
    [] cls = "ContentType" -> "json"
    [] cls = "InParameterChoice" -> "query"
    [] cls = "SecuritySchemeChoice" -> "apiKey"
    [] cls = "InSecuritySchemeChoice" -> "header"

RECURSIVE Minimal(_)

\* One well-typed value of a type; a record as the mapping of its required fields.
RECURSIVE MinSample(_)
MinSample(T) ==
  CASE T.k = "str" -> StrV(<<"x">>)
    [] T.k = "bool" -> BoolV(TRUE)
    [] T.k = "int" -> IntV(1)
    [] T.k = "any" -> IntV(1)
    [] T.k = "enum" -> EnumV(T.cls, SampleMember(T.cls))
    [] T.k = "model" -> DictV(Minimal(T.cls))
    [] T.k \in {"list", "seq"} -> ListV(<< MinSample(T.of) >>)
    [] T.k = "dict" -> DictV(<<>>)
    [] T.k = "union" -> MinSample(T.alts[1])

\* The keyword arguments of the required fields of cls, under their public keys.
Minimal(cls) ==
  LET req == SelectSeq(fields_of(cls), LAMBDA f : f.required)
  IN  [i \in DOMAIN req |-> Item(StrKey(om_public(cls, req[i])), MinSample(req[i].type))]

\* The values the caller supplies for a field of type T: for an enum the
\* member, its value and a string outside the enum.
Samples(T) ==
  CASE T.k = "enum" /\ T.cls = "SchemaType" ->
         { MinSample(T), EnumV("SchemaType", "object"), StrV(<<"integer">>),
           StrV(<<"bogus">>) }
    [] T.k = "enum" /\ T.cls # "SchemaType" ->
         { MinSample(T), StrV(EnumValue(T.cls, SampleMember(T.cls))), StrV(<<"bogus">>) }
    [] T.k = "seq" -> { ListV(<< MinSample(T.of) >>), TupleV(<< MinSample(T.of) >>) }
    [] OTHER -> { MinSample(T) }

\* The values the caller gives a required field of type T.
RequiredSamples(T) == IF T.k = "enum" THEN Samples(T) ELSE { MinSample(T) }

\* The arguments of the required fields req of cls from the i-th on: a
\* renamed field under either of its two names, an enum with each sample.
RECURSIVE Spelled(_, _, _)
Spelled(cls, req, i) ==
  IF i > Len(req) THEN { <<>> }
  ELSE { <<Item(StrKey(n), x)>> \o rest :
           n \in {req[i].name, om_public(cls, req[i])},
           x \in RequiredSamples(req[i].type),
           rest \in Spelled(cls, req, i + 1) }

Minimals(cls) == Spelled(cls, SelectSeq(fields_of(cls), LAMBDA f : f.required), 1)

\* The keys the caller uses in a mapping whose keys have type K.
KeySamples(K) ==
  CASE K.k = "int" -> << IntKey(200) >>
    [] K.k \in {"union", "enum"} ->
         << EnumKey("ContentType", "json"), EnumKey("ContentType", "html"),
            StrKey(<<"application/json">>), StrKey(<<"text/plain">>) >>
    [] OTHER -> << StrKey(<<"x">>), StrKey(<<"x", "_">>) >>

\* The keys under which the caller may supply the fields fs of cls, from the
\* i-th on, in field order; a renamed field under its name and its public key.
RECURSIVE field_keys(_, _, _)
field_keys(cls, fs, i) ==
  IF i > Len(fs) THEN <<>>
  ELSE IF ~(fs[i].required \/ fs[i].name \in exercised(cls))
  THEN field_keys(cls, fs, i + 1)
  ELSE IF IsRenamed(cls, fs[i])
  THEN << [key |-> StrKey(fs[i].name), f |-> fs[i]],
          [key |-> StrKey(om_public(cls, fs[i])), f |-> fs[i]] >>
       \o field_keys(cls, fs, i + 1)
  ELSE << [key |-> StrKey(fs[i].name), f |-> fs[i]] >> \o field_keys(cls, fs, i + 1)

om_keys(cls) == field_keys(cls, fields_of(cls), 1)

\* The position of key in keys, 0 when it is not one of them.
Rank(keys, key) ==
  IF \E i \in DOMAIN keys : keys[i] = key
  THEN CHOOSE i \in DOMAIN keys : keys[i] = key
  ELSE 0

KeysOnly(ks) == [i \in DOMAIN ks |-> ks[i].key]

\* The keys of a container of type T, in the order the caller supplies them.
SiteKeys(T) ==
  IF T.k = "model" THEN KeysOnly(om_keys(T.cls)) ELSE KeySamples(T.key)

\* The type of the field supplied under key, given the keys ks of its class.
FieldType(ks, r) == IF r = 0 THEN TAny ELSE ks[r].f.type

\* The type of the value under key in a container of type T.
ValueType(T, key) ==
  IF T.k = "model" THEN FieldType(om_keys(T.cls), Rank(SiteKeys(T), key)) ELSE T.of

\* The mappings of v (of declared type T) the caller can add an entry to:
\* the keyword arguments of records and the mappings keyed by the caller.
RECURSIVE Sites(_, _)
Sites(v, T) ==
  IF v.t = "dict" /\ T.k \in {"model", "dict"}
  THEN { [path |-> <<>>, type |-> T] } \cup
       UNION { { [path |-> <<i>> \o s.path, type |-> s.type] :
                   s \in Sites(v.items[i].v, ValueType(T, v.items[i].k)) }
               : i \in DOMAIN v.items }
  ELSE IF v.t \in {"list", "tuple"} /\ T.k \in {"list", "seq"}
  THEN UNION { { [path |-> <<i>> \o s.path, type |-> s.type] :
                   s \in Sites(v.items[i], T.of) }
               : i \in DOMAIN v.items }
  ELSE {}

\* The entries with a key of keys after position last and a value of its type.
CandidatesAfter(T, keys, last) ==
  { [key |-> keys[c[1]], leaf |-> c[2]] :
      c \in UNION { {i} \X Samples(ValueType(T, keys[i])) :
                     i \in { j \in DOMAIN keys : j > last } } }

\* The position of the last entry of items among keys.
LastRank(keys, items) ==
  IF items = <<>> THEN 0 ELSE Rank(keys, items[Len(items)].k)

\* The entries the caller can add to a mapping of type T holding items: the
\* keys after those it holds, each with the values of its type.
Candidates(T, items) == CandidatesAfter(T, SiteKeys(T), LastRank(SiteKeys(T), items))

-----------------------------------------------------------------------------
(* The run of remove_nulls on a raw object. *)

InitRN ==
  /\ pc = "ready"
  /\ source \in RawLeaves
  /\ target = None
  /\ root = "" /\ kwargs = <<>> /\ supplied = 0
  /\ built = None /\ assigned = <<>>
  /\ dumped = None /\ rebuilt = None /\ redumped = None
  /\ heap = <<>> /\ docs = <<>>
  /\ runs = <<>> /\ stdout = <<>> /\ files = <<>> /\ args = None

\* The caller adds one entry or element to the object it is building.
Grow ==
  /\ pc = "ready"
  /\ Size(source) < MaxNodes
  /\ \E path \in Paths(source), leaf \in RawLeaves :
       IF NodeAt(source, path).t = "dict"
       THEN \E k \in RawKeys :
              /\ ~HasKey(NodeAt(source, path).items, k)
              /\ source' = Insert(source, path, k, leaf)
       ELSE source' = Insert(source, path, None, leaf)
  /\ UNCHANGED <<pc, target, root, kwargs, supplied, built, assigned, dumped, rebuilt,
                 redumped, heap, docs, runs, stdout, files, args>>

\* remove_nulls(source) is called and returns.
RemoveNulls ==
  /\ pc = "ready"
  /\ target' = remove_nulls(source)
  /\ pc' = "done"
  /\ UNCHANGED <<source, root, kwargs, supplied, built, assigned, dumped, rebuilt,
                 redumped, heap, docs, runs, stdout, files, args>>

\* json.dumps(target, cls=Encoder): the second half of as_json.
AsJson ==
  /\ pc = "done"
  /\ dumped' = json_dumps(target)
  /\ pc' = "encoded"
  /\ UNCHANGED <<source, target, root, kwargs, supplied, built, assigned, rebuilt,
                 redumped, heap, docs, runs, stdout, files, args>>

NextRN == Grow \/ RemoveNulls \/ AsJson

SpecRN == InitRN /\ [][NextRN]_vars

-----------------------------------------------------------------------------
(* The run on a record of the openapi_om model: the caller supplies the     *)
(* keyword arguments, constructs the record, serializes it, constructs a    *)
(* second record from the serialized mapping and serializes that one.       *)

InitOM ==
  /\ pc = "ready"
  /\ root \in om_classes
  /\ kwargs \in Minimals(root)
  /\ supplied = 0
  /\ built = None /\ assigned = <<>>
  /\ dumped = None /\ rebuilt = None /\ redumped = None
  /\ source = None /\ target = None
  /\ heap = <<>> /\ docs = <<>>
  /\ runs = <<>> /\ stdout = <<>> /\ files = <<>> /\ args = None

\* The caller adds one keyword argument or mapping entry to its input.
Supply ==
  /\ pc = "ready"
  /\ supplied < MaxSupplied
  /\ \E site \in Sites(DictV(kwargs), TModel(root)) :
       \E c \in Candidates(site.type, NodeAt(DictV(kwargs), site.path).items) :
         kwargs' = Insert(DictV(kwargs), site.path, c.key, c.leaf).items
  /\ supplied' = supplied + 1
  /\ UNCHANGED <<pc, root, built, assigned, dumped, rebuilt, redumped, source, target,
                 heap, docs, runs, stdout, files, args>>

\* root(**kwargs)
Construct ==
  /\ pc = "ready"
  /\ built' = construct(root, kwargs)
  /\ pc' = IF IsError(built') THEN "rejected" ELSE "built"
  /\ UNCHANGED <<root, kwargs, supplied, assigned, dumped, rebuilt, redumped, source,
                 target, heap, docs, runs, stdout, files, args>>

\* The record with its i-th field set to a value of the field f's type.
setattr_(self, i, f) ==
  [self EXCEPT !.items[i].v = validate(f.type, FALSE, MinSample(f.type))]

\* built.<field> = value: the caller sets a field of the record that holds
\* None (pydantic stores the value; there is no validate_assignment).
Assign ==
  /\ pc = "built"
  /\ Len(assigned) < MaxAssigned
  /\ \E i \in DOMAIN built.items :
       /\ built.items[i].v = None
       /\ built.items[i].k.s \in om_exercised(root)
       /\ built' = setattr_(built, i, om_fields(root)[i])
       /\ assigned' = Append(assigned, built.items[i].k.s)
  /\ UNCHANGED <<pc, root, kwargs, supplied, dumped, rebuilt, redumped, source, target,
                 heap, docs, runs, stdout, files, args>>

\* built.dict(exclude_none=True, by_alias=True)
Serialize ==
  /\ pc = "built"
  /\ dumped' = dict_(built)
  /\ pc' = IF IsError(dumped') THEN "failed" ELSE "dumped"
  /\ UNCHANGED <<root, kwargs, supplied, built, assigned, rebuilt, redumped, source,
                 target, heap, docs, runs, stdout, files, args>>

\* root(**dumped)
Reconstruct ==
  /\ pc = "dumped"
  /\ rebuilt' = construct(root, dumped.items)
  /\ pc' = IF IsError(rebuilt') THEN "rejected again" ELSE "rebuilt"
  /\ UNCHANGED <<root, kwargs, supplied, built, assigned, dumped, redumped, source,
                 target, heap, docs, runs, stdout, files, args>>

\* rebuilt.dict(exclude_none=True, by_alias=True)
Reserialize ==
  /\ pc = "rebuilt"
  /\ redumped' = dict_(rebuilt)
  /\ pc' = IF IsError(redumped') THEN "failed again" ELSE "redumped"
  /\ UNCHANGED <<root, kwargs, supplied, built, assigned, dumped, rebuilt, source,
                 target, heap, docs, runs, stdout, files, args>>

NextOM == Supply \/ Construct \/ Assign \/ Serialize \/ Reconstruct \/ Reserialize

SpecOM == InitOM /\ [][NextOM]_vars

-----------------------------------------------------------------------------
(* The run on a record of the openapy model: the caller supplies the        *)
(* arguments, constructs the record and takes its as_dict().                *)

InitPY ==
  /\ pc = "ready"
  /\ root \in py_classes
  /\ kwargs \in Minimals(root)
  /\ supplied = 0
  /\ built = None /\ assigned = <<>>
  /\ dumped = None /\ rebuilt = None /\ redumped = None
  /\ source = None /\ target = None
  /\ heap = <<>> /\ docs = <<>>
  /\ runs = <<>> /\ stdout = <<>> /\ files = <<>> /\ args = None

\* root(**kwargs)
PyConstruct ==
  /\ pc = "ready"
  /\ built' = py_init(root, kwargs)
  /\ pc' = IF IsError(built') THEN "rejected" ELSE "built"
  /\ UNCHANGED <<root, kwargs, supplied, assigned, dumped, rebuilt, redumped, source,
                 target, heap, docs, runs, stdout, files, args>>

\* built.as_dict()
AsDict ==
  /\ pc = "built"
  /\ root \in BaseNode
  /\ built' = as_dict_call(built).self
  /\ dumped' = as_dict_call(built).result
  /\ pc' = "dumped"
  /\ UNCHANGED <<root, kwargs, supplied, assigned, rebuilt, redumped, source,
                 target, heap, docs, runs, stdout, files, args>>

\* built.as_dict(), a second time on the same record.
AsDictAgain ==
  /\ pc = "dumped"
  /\ built' = as_dict_call(built).self
  /\ redumped' = as_dict_call(built).result
  /\ pc' = "dumped again"
  /\ UNCHANGED <<root, kwargs, supplied, assigned, dumped, rebuilt, source,
                 target, heap, docs, runs, stdout, files, args>>

\* built.as_json() and built.as_yaml(), for the same record.
AsJsonAsYaml ==
  /\ pc = "built"
  /\ root \in BaseNode
  /\ source' = as_json(built)
  /\ target' = as_yaml(built)
  /\ pc' = IF IsError(source') \/ IsError(target') THEN "failed" ELSE "emitted"
  /\ UNCHANGED <<root, kwargs, supplied, built, assigned, dumped, rebuilt, redumped,
                 heap, docs, runs, stdout, files, args>>

NextPY == Supply \/ PyConstruct \/ AsDict \/ AsDictAgain \/ AsJsonAsYaml

SpecPY == InitPY /\ [][NextPY]_vars

-----------------------------------------------------------------------------
(* OpenAPI documents side by side: each holds a reference to the list       *)
(* object of its servers field; the caller appends to a document's list and *)
(* serializes documents.                                                    *)

packages == {"openapi_om", "openapy"}

\* The list [Server(url="/", description="Default server")] of a package.
factory_list(pkg) == IF pkg = "openapy" THEN py_default_servers ELSE default_servers

\* Server(url="x") of a package.
given_server(pkg) ==
  IF pkg = "openapy"
  THEN py_init("openapy.Server", << Item(StrKey(<<"url">>), StrV(<<"x">>)) >>)
  ELSE construct("Server", << Item(StrKey(<<"url">>), StrV(<<"x">>)) >>)

\* Mutant: the default is one list object, handed to every document.
factory_object_shared(h) == 1

\* default_factory=lambda: [...]: each call evaluates the list display, which
\* makes a new list object.
factory_object(h) == Len(h) + 1

\* The heap once the object id holds the list v, unless id exists already.
allocate(h, id, v) == IF id > Len(h) THEN Append(h, v) ELSE h

\* The servers entry of the canonical mapping of document d.
servers_entry(d) ==
  IF d.pkg = "openapy" THEN remove_nulls(asdict(heap[d.servers]))
  ELSE get_value(heap[d.servers])

InitDocs ==
  /\ pc = "documents"
  /\ heap = <<>> /\ docs = <<>>
  /\ runs = <<>> /\ stdout = <<>> /\ files = <<>> /\ args = None
  /\ root = "" /\ kwargs = <<>> /\ supplied = 0
  /\ built = None /\ assigned = <<>>
  /\ dumped = None /\ rebuilt = None /\ redumped = None
  /\ source = None /\ target = None

\* OpenAPI(info=..., paths={}): servers comes from the default_factory.
NewDocument ==
  /\ pc = "documents"
  /\ Len(docs) < MaxDocs
  /\ \E pkg \in packages :
       /\ heap' = allocate(heap, factory_object(heap), factory_list(pkg))
       /\ docs' = Append(docs, [pkg |-> pkg, servers |-> factory_object(heap),
                                defaulted |-> TRUE, appended |-> FALSE, out |-> None])
  /\ UNCHANGED <<pc, source, target, root, kwargs, supplied, built, assigned, dumped,
                 rebuilt, redumped, runs, stdout, files, args>>

\* OpenAPI(info=..., paths={}, servers=[]) and servers=[Server(url="x")]: the
\* list is the caller's (openapy) or the copy validation makes of it
\* (openapi_om).
NewDocumentWithServers ==
  /\ pc = "documents"
  /\ Len(docs) < MaxDocs
  /\ \E pkg \in packages, n \in {0, 1} :
       /\ heap' = Append(heap, ListV([k \in 1..n |-> given_server(pkg)]))
       /\ docs' = Append(docs, [pkg |-> pkg, servers |-> Len(heap) + 1,
                                defaulted |-> FALSE, appended |-> FALSE, out |-> None])
  /\ UNCHANGED <<pc, source, target, root, kwargs, supplied, built, assigned, dumped,
                 rebuilt, redumped, runs, stdout, files, args>>

\* document.servers.append(Server(url="x"))
AppendServer ==
  /\ pc = "documents"
  /\ \E i \in DOMAIN docs :
       /\ docs[i].out = None
       /\ Len(heap[docs[i].servers].items) < MaxServers
       /\ heap' = [heap EXCEPT ![docs[i].servers].items = Append(@, given_server(docs[i].pkg))]
       /\ docs' = [docs EXCEPT ![i].appended = TRUE]
  /\ UNCHANGED <<pc, source, target, root, kwargs, supplied, built, assigned, dumped,
                 rebuilt, redumped, runs, stdout, files, args>>

\* document.dict(exclude_none=True, by_alias=True)["servers"] / document.as_dict()["servers"]
SerializeDocument ==
  /\ pc = "documents"
  /\ \E i \in DOMAIN docs :
       /\ docs[i].out = None
       /\ docs' = [docs EXCEPT ![i].out = servers_entry(docs[i])]
  /\ UNCHANGED <<pc, source, target, root, kwargs, supplied, built, assigned, dumped,
                 rebuilt, redumped, heap, runs, stdout, files, args>>

NextDocs == NewDocument \/ NewDocumentWithServers \/ AppendServer \/ SerializeDocument

SpecDocs == InitDocs /\ [][NextDocs]_vars

-----------------------------------------------------------------------------
(* openapy: several callers run as_dict on the same record, their steps     *)
(* interleaved. A step is the copy made by asdict, the snapshot             *)
(* tuple(obj.items()) or one round of the loop of remove_nulls.             *)

\* The number of as_dict calls in progress on the record.
MaxRuns == 2

\* The entries of a dict object, each with the identity of its value object.
entries(items) == [i \in DOMAIN items |-> [k |-> items[i].k, v |-> items[i].v, id |-> i]]

\* Mutant: asdict hands every caller the same dict object.
copy_object_shared(h) == 1

\* schema_dict = asdict(self): a new dict object at every call.
copy_object(h) == Len(h) + 1

\* del obj[key] and obj.pop(key) raise KeyError when obj has no such key.
raises_KeyError(entry, cur) ==
  /\ entry.v = None \/ NewKey(entry.k) # entry.k
  /\ ~HasKey(cur, entry.k)

InitRuns ==
  /\ pc = "ready"
  /\ root \in BaseNode
  /\ kwargs \in Minimals(root)
  /\ supplied = 0
  /\ built = None /\ assigned = <<>>
  /\ dumped = None /\ rebuilt = None /\ redumped = None
  /\ source = None /\ target = None
  /\ heap = <<>> /\ docs = <<>>
  /\ runs = <<>> /\ stdout = <<>> /\ files = <<>> /\ args = None

\* A caller enters built.as_dict(): schema_dict = asdict(self).
CallAsDict ==
  /\ pc = "built"
  /\ Len(runs) < MaxRuns
  /\ heap' = allocate(heap, copy_object(heap), entries(asdict(built).items))
  /\ runs' = Append(runs, [stage |-> "copied", obj |-> copy_object(heap),
                           snap |-> <<>>, i |-> 0, out |-> None])
  /\ UNCHANGED <<pc, source, target, root, kwargs, supplied, built, assigned, dumped,
                 rebuilt, redumped, docs, stdout, files, args>>

\* remove_nulls(schema_dict) starts: tuple(obj.items())
Snapshot ==
  /\ \E r \in DOMAIN runs :
       /\ runs[r].stage = "copied"
       /\ runs' = [runs EXCEPT ![r].stage = "looping", ![r].snap = heap[runs[r].obj],
                               ![r].i = 1]
  /\ UNCHANGED <<pc, source, target, root, kwargs, supplied, built, assigned, dumped,
                 rebuilt, redumped, heap, docs, stdout, files, args>>

\* One round of the loop over the snapshot.
Round ==
  /\ \E r \in DOMAIN runs :
       /\ runs[r].stage = "looping"
       /\ runs[r].i <= Len(runs[r].snap)
       /\ IF raises_KeyError(runs[r].snap[runs[r].i], heap[runs[r].obj])
          THEN /\ runs' = [runs EXCEPT ![r].stage = "raised"]
               /\ heap' = heap
          ELSE /\ runs' = [runs EXCEPT ![r].i = @ + 1]
               /\ heap' = [heap EXCEPT ![runs[r].obj] =
                             remove_nulls_step(runs[r].snap, runs[r].i, @)]
  /\ UNCHANGED <<pc, source, target, root, kwargs, supplied, built, assigned, dumped,
                 rebuilt, redumped, docs, stdout, files, args>>

\* The loop is over: return schema_dict
Return ==
  /\ \E r \in DOMAIN runs :
       /\ runs[r].stage = "looping"
       /\ runs[r].i > Len(runs[r].snap)
       /\ runs' = [runs EXCEPT ![r].stage = "returned",
                               ![r].out = DictV([j \in DOMAIN heap[runs[r].obj] |->
                                                   Item(heap[runs[r].obj][j].k,
                                                        heap[runs[r].obj][j].v)])]
  /\ UNCHANGED <<pc, source, target, root, kwargs, supplied, built, assigned, dumped,
                 rebuilt, redumped, heap, docs, stdout, files, args>>

NextRuns == PyConstruct \/ CallAsDict \/ Snapshot \/ Round \/ Return

SpecRuns == InitRuns /\ [][NextRuns]_vars

-----------------------------------------------------------------------------
(* openapi_om export tool: the module's openapi document is built, the      *)
(* command line is parsed and _command_export runs.                         *)

FORMAT_JSON == StrV(<<"json">>)
FORMAT_YAML == StrV(<<"yaml">>)

\* The namespaces parse_args returns for "export module [-f FORMAT] [-o FILE]":
\* an option that is not given is None.
parse_args ==
  { [format |-> f, output |-> o] :
      f \in {None, FORMAT_JSON, FORMAT_YAML}, o \in {None, StrV(<<"out">>)} }

\* json.loads(openapi.json(exclude_none=True, by_alias=True))
schema_dict(openapi) ==
  IF IsError(json_dumps(dict_(openapi))) THEN json_dumps(dict_(openapi))
  ELSE json_loads(json_dumps(dict_(openapi)))

\* The writes of _command_export to sys.stdout: json.dump or yaml.dump of the
\* document for the two formats, nothing for any other value of args.format.
stdout_writes(a, document) ==
  IF a.format = FORMAT_JSON THEN << [encoder |-> "json", document |-> document] >>
  ELSE IF a.format = FORMAT_YAML THEN << [encoder |-> "yaml", document |-> document] >>
  ELSE <<>>

InitCLI ==
  /\ pc = "ready"
  /\ root = "OpenAPI"
  /\ kwargs \in Minimals(root)
  /\ supplied = 0
  /\ args \in parse_args
  /\ built = None /\ assigned = <<>>
  /\ dumped = None /\ rebuilt = None /\ redumped = None
  /\ source = None /\ target = None
  /\ heap = <<>> /\ docs = <<>>
  /\ runs = <<>> /\ stdout = <<>> /\ files = <<>>

\* _command_export(args): args.output is not read, no file is opened.
Export ==
  /\ pc = "built"
  /\ dumped' = schema_dict(built)
  /\ pc' = IF IsError(dumped') THEN "failed" ELSE "exported"
  /\ stdout' = IF IsError(dumped') THEN stdout ELSE stdout \o stdout_writes(args, dumped')
  /\ UNCHANGED <<root, kwargs, supplied, built, assigned, rebuilt, redumped, source,
                 target, heap, docs, runs, files, args>>

NextCLI == Supply \/ Construct \/ Export

SpecCLI == InitCLI /\ [][NextCLI]_vars

-----------------------------------------------------------------------------
(* Claims about remove_nulls (checked under SpecRN). *)

\* No mapping reachable from v through mappings and lists holds a None value.
RECURSIVE NoNullEntry(_)
NoNullEntry(v) ==
  CASE v.t = "dict" ->
         \A i \in DOMAIN v.items : v.items[i].v # None /\ NoNullEntry(v.items[i].v)
    [] v.t = "list" -> \A i \in DOMAIN v.items : NoNullEntry(v.items[i])
    [] OTHER -> TRUE

\* C2: after remove_nulls(obj) returns, no mapping reachable from obj through
\* any nesting of mappings and lists holds an entry whose value is None.
C2_NoNullEntryAfterPass == pc = "done" => NoNullEntry(target)

\* A null entry nested in a mapping in a list in a mapping was removed.
C2_Witness ==
  /\ pc = "done"
  /\ source.t = "dict"
  /\ \E i \in DOMAIN source.items :
       /\ source.items[i].v.t = "list"
       /\ \E j \in DOMAIN source.items[i].v.items :
            /\ source.items[i].v.items[j].t = "dict"
            /\ ~NoNullEntry(source.items[i].v.items[j])
  /\ NoNullEntry(target)

\* before is an object of the input and after the same object once the pass
\* has visited it: every list has kept its length and its None items.
RECURSIVE ListsKept(_, _)
ListsKept(before, after) ==
  CASE before.t = "list" ->
         /\ after.t = "list"
         /\ Len(after.items) = Len(before.items)
         /\ \A i \in DOMAIN before.items :
              /\ (before.items[i] = None) <=> (after.items[i] = None)
              /\ ListsKept(before.items[i], after.items[i])
    [] before.t = "dict" ->
         \A i \in DOMAIN before.items :
           ListsKept(before.items[i].v, remove_nulls(before.items[i].v))
    [] OTHER -> after = before

\* C3: remove_nulls never filters sequences: every list reachable from the
\* input has the same length after the pass and every None item of a list
\* stays at its position.
C3_ListsNotFiltered == pc = "done" => ListsKept(source, target)

\* A list holding a None item was visited inside a mapping and kept the item.
C3_Witness ==
  /\ pc = "done"
  /\ source.t = "dict"
  /\ \E i \in DOMAIN source.items :
       /\ source.items[i].v.t = "list"
       /\ \E j \in DOMAIN source.items[i].v.items : source.items[i].v.items[j] = None
       /\ HasKey(target.items, NewKey(source.items[i].k))
       /\ GetItem(target.items, NewKey(source.items[i].k)).v = source.items[i].v

\* A non-empty mapping all of whose entries are null.
AllNullMapping(v) ==
  /\ v.t = "dict"
  /\ Len(v.items) > 0
  /\ \A i \in DOMAIN v.items : v.items[i].v = None

\* before is a mapping of the input and after the same mapping after the pass:
\* every entry whose value is not None is still there under its (re-keyed) key,
\* an all-null mapping as the empty mapping; so in the mappings below it.
RECURSIVE OnlyNullsRemoved(_, _)
OnlyNullsRemoved(before, after) ==
  CASE before.t = "dict" ->
         \A i \in DOMAIN before.items :
           LET e == before.items[i]
           IN  e.v # None =>
                 /\ HasKey(after.items, NewKey(e.k))
                 /\ AllNullMapping(e.v) =>
                      GetItem(after.items, NewKey(e.k)).v = DictV(<<>>)
                 /\ OnlyNullsRemoved(e.v, remove_nulls(e.v))
    [] before.t = "list" ->
         \A i \in DOMAIN before.items :
           OnlyNullsRemoved(before.items[i], remove_nulls(before.items[i]))
    [] OTHER -> TRUE

\* C4: a mapping-valued entry all of whose own entries are null is kept under
\* its key as an empty mapping; the pass removes only entries whose value is
\* None itself.
C4_OnlyNullEntriesRemoved == pc = "done" => OnlyNullsRemoved(source, target)


-----------------------------------------------------------------------------
(* Claims about the openapi_om records (SpecOM). *)

\* The run has a serialized mapping of built.
Dumped == pc \in {"dumped", "rebuilt", "rejected again", "redumped", "failed again"}

\* The second construction has returned or raised.
Reconstructed == pc \in {"rebuilt", "rejected again", "redumped", "failed again"}

Entries(items) == { items[i] : i \in DOMAIN items }

\* OpenAPI(info=Info(title="x", version="x"), paths={})
MinimalDocumentArguments ==
  << Item(StrKey(<<"info">>),
          DictV(<< Item(StrKey(<<"title">>), StrV(<<"x">>)),
                   Item(StrKey(<<"version">>), StrV(<<"x">>)) >>)),
     Item(StrKey(<<"paths">>), DictV(<<>>)) >>

MinimalDocumentEntries ==
  { Item(StrKey(<<"info">>),
         DictV(<< Item(StrKey(<<"title">>), StrV(<<"x">>)),
                  Item(StrKey(<<"version">>), StrV(<<"x">>)) >>)),
    Item(StrKey(<<"openapi">>), StrV(<<"3.0.1">>)),
    Item(StrKey(<<"paths">>), DictV(<<>>)),
    Item(StrKey(<<"servers">>),
         ListV(<< DictV(<< Item(StrKey(<<"url">>), StrV(<<"/">>)),
                           Item(StrKey(<<"description">>),
                                StrV(<<"Default server">>)) >>) >>)) }

\* C1: an OpenAPI document constructed with only info=Info(title, version)
\* and paths={} serializes to exactly four keys: info holding only title and
\* version, openapi "3.0.1", paths {} and servers holding the one default
\* server {"url": "/", "description": "Default server"}.
C1_MinimalDocument ==
  (Dumped /\ root = "OpenAPI" /\ kwargs = MinimalDocumentArguments /\ assigned = <<>>)
    => /\ Len(dumped.items) = 4
       /\ Entries(dumped.items) = MinimalDocumentEntries

C1_Witness ==
  /\ pc = "dumped" /\ root = "OpenAPI" /\ kwargs = MinimalDocumentArguments
  /\ assigned = <<>>
  /\ Len(dumped.items) = 4
  /\ GetItem(dumped.items, StrKey(<<"openapi">>)).v = StrV(<<"3.0.1">>)

\* The position of the field of cls that the caller's key names publicly, 0 if none.
PublicField(cls, key) ==
  IF \E j \in DOMAIN om_fields(cls) : StrKey(om_public(cls, om_fields(cls)[j])) = key
  THEN CHOOSE j \in DOMAIN om_fields(cls) : StrKey(om_public(cls, om_fields(cls)[j])) = key
  ELSE 0

\* What pydantic makes of the value v supplied for the j-th field of cls.
Coerced(cls, j, v) == validate(om_fields(cls)[j].type, om_fields(cls)[j].optional, v)

\* The mapping out has a key for a field of the record exactly when the
\* field's value is not None, at every nested record.
RECURSIVE KeysMatchValues(_, _)
KeysMatchValues(v, out) ==
  CASE v.t = "model" ->
         /\ out.t = "dict"
         /\ Len(out.items) = Cardinality({ j \in DOMAIN v.items : v.items[j].v # None })
         /\ \A j \in DOMAIN v.items :
              LET key == StrKey(om_public(v.cls, om_fields(v.cls)[j]))
              IN  IF v.items[j].v = None THEN ~HasKey(out.items, key)
                  ELSE /\ HasKey(out.items, key)
                       /\ KeysMatchValues(v.items[j].v, GetItem(out.items, key).v)
    [] v.t = "dict" ->
         /\ out.t = "dict" /\ Len(out.items) = Len(v.items)
         /\ \A i \in DOMAIN v.items : KeysMatchValues(v.items[i].v, out.items[i].v)
    [] v.t \in {"list", "tuple"} ->
         /\ out.t = v.t /\ Len(out.items) = Len(v.items)
         /\ \A i \in DOMAIN v.items : KeysMatchValues(v.items[i], out.items[i])
    [] OTHER -> out = v

\* Every field the caller gave a non-null value under its public key holds
\* that value and has its key in the serialized mapping.
GivenAppear ==
  \A i \in DOMAIN kwargs :
    LET j == PublicField(root, kwargs[i].k)
    IN  (j # 0 /\ kwargs[i].v # None /\ ~IsError(Coerced(root, j, kwargs[i].v)))
          => /\ built.items[j].v = Coerced(root, j, kwargs[i].v)
             /\ HasKey(dumped.items, kwargs[i].k)

\* C5: the serialized mapping of a record has a key for a field if and only
\* if the field's value is not None, at every nested record, and every field
\* given a non-null value appears in it with that value.
C5_KeysIffNotNone ==
  (Dumped /\ assigned = <<>>) => (KeysMatchValues(built, dumped) /\ GivenAppear)

\* C7: after construction from a mapping keyed by the public name "in", "not"
\* or "schema", the internal field in_, not_ or schema_ holds the supplied
\* value.
C7_PublicNameStored ==
  (pc = "built" /\ assigned = <<>>
     /\ root \in {"Parameter", "SecurityScheme", "Schema", "Header", "MediaType"})
    => \A i \in DOMAIN kwargs :
         LET j == PublicField(root, kwargs[i].k)
         IN  (j # 0 /\ IsRenamed(root, om_fields(root)[j]) /\ kwargs[i].v # None
                /\ ~IsError(Coerced(root, j, kwargs[i].v)))
               => built.items[j].v = Coerced(root, j, kwargs[i].v)

\* A renamed field of the record holds a value.
HasRenamedSet(self) ==
  \E j \in DOMAIN self.items :
    IsRenamed(self.cls, om_fields(self.cls)[j]) /\ self.items[j].v # None

\* C8: a record with a renamed field set is equal to the record constructed
\* from its serialized mapping.
C8_RoundTripEqual ==
  (Reconstructed /\ HasRenamedSet(built)) => rebuilt = built

\* C9: for a record with all optional fields absent, serializing it,
\* constructing a record from the mapping and serializing that record yields
\* a mapping identical to the first.
C9_FixedPoint ==
  (supplied = 0 /\ assigned = <<>> /\ Reconstructed /\ pc # "rebuilt")
    => (pc = "redumped" /\ redumped = dumped)

C9_Witness ==
  /\ pc = "redumped" /\ root = "OpenAPI" /\ supplied = 0 /\ assigned = <<>>
  /\ redumped = dumped
  /\ HasKey(redumped.items, StrKey(<<"servers">>))

\* The content argument of the constructor call, None when there is none.
ContentArgument ==
  IF HasKey(kwargs, StrKey(<<"content">>))
  THEN GetItem(kwargs, StrKey(<<"content">>)).v
  ELSE None

\* The caller built a content mapping whose keys are all ContentType members.
EnumKeyedContent ==
  /\ root \in {"Response", "RequestBody"}
  /\ ContentArgument # None
  /\ ContentArgument.items # <<>>
  /\ \A i \in DOMAIN ContentArgument.items : ContentArgument.items[i].k.kt = "enum"

\* C10: a content mapping built with ContentType keys serializes with one
\* entry per input entry, each under the string value of its member.
C10_ContentKeyedByValue ==
  (EnumKeyedContent /\ assigned = <<>> /\ (Dumped \/ pc = "failed"))
    => /\ pc # "failed"
       /\ LET out == GetItem(dumped.items, StrKey(<<"content">>)).v.items
              given == ContentArgument.items
          IN  /\ Len(out) = Len(given)
              /\ \A i \in DOMAIN given :
                   out[i].k = StrKey(EnumValue(given[i].k.cls, given[i].k.name))

C10_Witness ==
  /\ pc = "dumped" /\ root = "Response" /\ EnumKeyedContent
  /\ Len(ContentArgument.items) = 2
  /\ HasKey(GetItem(dumped.items, StrKey(<<"content">>)).v.items,
            StrKey(<<"application/json">>))
  /\ HasKey(GetItem(dumped.items, StrKey(<<"content">>)).v.items,
            StrKey(<<"text/html">>))

\* C13: a Tag constructed with only a name serializes to exactly
\* {"name": <name>, "description": ""}: the empty-string default is emitted
\* and the unset externalDocs is left out.
C13_TagDefaultDescription ==
  (Dumped /\ root = "Tag" /\ supplied = 0 /\ assigned = <<>>)
    => dumped = DictV(<< Item(StrKey(<<"name">>), GetItem(kwargs, StrKey(<<"name">>)).v),
                         Item(StrKey(<<"description">>), StrV(<<>>)) >>)

C13_Witness ==
  /\ pc = "dumped" /\ root = "Tag" /\ supplied = 0 /\ assigned = <<>>
  /\ kwargs = << Item(StrKey(<<"name">>), StrV(<<"x">>)) >>
  /\ Len(dumped.items) = 2
  /\ GetItem(dumped.items, StrKey(<<"description">>)).v = StrV(<<>>)

\* The value v is outside the declared domain of the enum type T.
OutsideDomain(T, v) ==
  /\ T.k = "enum"
  /\ ~(v.t = "enum" /\ v.cls = T.cls)
  /\ ~(v.t = "str" /\ \E m \in EnumMembers(T.cls) : EnumValue(T.cls, m) = v.s)

\* C14: construction produces no record when a required field is missing or
\* an enum-typed field is given a value outside its declared domain, in both
\* model variants.
C14_InvalidRejected ==
  (pc \in {"built", "dumped"})
    => /\ \A j \in DOMAIN fields_of(root) :
            fields_of(root)[j].required
              => \E i \in DOMAIN kwargs :
                   kwargs[i].k.s \in {fields_of(root)[j].name, om_public(root, fields_of(root)[j])}
       /\ \A i \in DOMAIN kwargs :
            ~OutsideDomain(ValueType(TModel(root), kwargs[i].k), kwargs[i].v)

-----------------------------------------------------------------------------
(* Claims about the canonical mapping of both models. *)

InternalKeys ==
  { <<"in", "_">>, <<"in", "_", "_">>, <<"not", "_">>, <<"schema", "_">> }

\* No mapping of v, at any depth, has an internal key.
RECURSIVE NoInternalKey(_)
NoInternalKey(v) ==
  CASE v.t = "dict" ->
         \A i \in DOMAIN v.items :
           /\ v.items[i].k.kt = "str" => v.items[i].k.s \notin InternalKeys
           /\ NoInternalKey(v.items[i].v)
    [] v.t \in {"list", "tuple"} -> \A i \in DOMAIN v.items : NoInternalKey(v.items[i])
    [] OTHER -> TRUE

\* C6: in the canonical mapping of a record (dict(exclude_none=True,
\* by_alias=True) of openapi_om, as_dict() of openapy) a Parameter has its
\* location under "in" and no mapping at any depth has one of the internal
\* keys in_, in__, not_, schema_.
C6_PublicKeysOnly ==
  pc = "dumped"
    => /\ NoInternalKey(dumped)
       /\ root \in {"Parameter", "openapy.Parameter"}
            => HasKey(dumped.items, StrKey(<<"in">>))

-----------------------------------------------------------------------------
(* Claims about the servers default (SpecDocs). *)

\* [{"url": "/", "description": "Default server"}]
DefaultServersEntry ==
  ListV(<< DictV(<< Item(StrKey(<<"url">>), StrV(<<"/">>)),
                    Item(StrKey(<<"description">>), StrV(<<"Default server">>)) >>) >>)

\* C11: a document constructed with no servers argument serializes with
\* servers == [{"url": "/", "description": "Default server"}], and its
\* default list is its own: no other document holds the same list object, so
\* what is appended to another document's servers does not show in it.
C11_OwnDefaultServers ==
  \A i \in DOMAIN docs :
    docs[i].defaulted
      => /\ \A j \in DOMAIN docs : j # i => docs[j].servers # docs[i].servers
         /\ (docs[i].out # None /\ ~docs[i].appended) => docs[i].out = DefaultServersEntry

C11_Witness ==
  \E i, j \in DOMAIN docs :
    /\ i # j /\ docs[i].pkg # docs[j].pkg
    /\ docs[i].defaulted /\ docs[j].defaulted
    /\ docs[j].appended /\ ~docs[i].appended
    /\ docs[i].out = DefaultServersEntry
    /\ docs[j].out # None /\ docs[j].out # DefaultServersEntry

\* C12: a document whose servers field is an empty sequence serializes with
\* the single default server in its place; the output never has an empty
\* servers sequence.
C12_EmptyServersReplaced ==
  \A i \in DOMAIN docs :
    docs[i].out # None
      => /\ docs[i].out.items # <<>>
         /\ heap[docs[i].servers].items = <<>> => docs[i].out = DefaultServersEntry

\* No value of v, at any depth, is an enum member.
RECURSIVE NoEnumValue(_)
NoEnumValue(v) ==
  CASE v.t = "enum" -> FALSE
    [] v.t = "dict" -> \A i \in DOMAIN v.items : NoEnumValue(v.items[i].v)
    [] v.t \in {"list", "tuple"} -> \A i \in DOMAIN v.items : NoEnumValue(v.items[i])
    [] OTHER -> TRUE

\* C15: in the canonical mapping every enum-typed field value appears as the
\* enum's underlying primitive value, never as an enum member.
C15_EnumValuesPrimitive == pc = "dumped" => NoEnumValue(dumped)

\* C16: remove_nulls re-keys a string key that ends in underscores to the key
\* without exactly its trailing underscores, leading underscores kept; a key
\* that does not end in an underscore is left unchanged. Stated for a mapping
\* of one entry, where no two keys can collide.
C16_TrailingUnderscoresOnly ==
  (/\ pc = "done"
   /\ source.t = "dict"
   /\ Len(source.items) = 1
   /\ source.items[1].k.kt = "str"
   /\ source.items[1].v = IntV(1))
    => target = DictV(<< Item(StrKey(rstrip_(source.items[1].k.s)), IntV(1)) >>)

\* The caller built a content mapping with a key that is a plain string and
\* the value of no ContentType member.
PlainKeyedContent ==
  /\ root \in {"Response", "RequestBody"}
  /\ ContentArgument # None
  /\ \E i \in DOMAIN ContentArgument.items :
       /\ ContentArgument.items[i].k.kt = "str"
       /\ ContentArgument.items[i].k.s \notin { EnumValue("ContentType", m) : m \in EnumMembers("ContentType") }

\* C17: a Response or RequestBody whose content mapping holds a plain-string
\* key serializes without error and emits the entry under that same string.
C17_PlainStringContentKey ==
  (PlainKeyedContent /\ assigned = <<>> /\ (Dumped \/ pc = "failed"))
    => /\ pc # "failed"
       /\ \A i \in DOMAIN ContentArgument.items :
            ContentArgument.items[i].k.kt = "str"
              => HasKey(GetItem(dumped.items, StrKey(<<"content">>)).v.items,
                        ContentArgument.items[i].k)

\* Some mapping of v, at any depth, has a key that is neither a string, an
\* integer nor an enum member.
RECURSIVE HasForeignKey(_)
HasForeignKey(v) ==
  CASE v.t = "dict" ->
         \E i \in DOMAIN v.items :
           v.items[i].k.kt \notin {"str", "int", "enum"} \/ HasForeignKey(v.items[i].v)
    [] v.t \in {"list", "tuple"} -> \E i \in DOMAIN v.items : HasForeignKey(v.items[i])
    [] OTHER -> FALSE

\* C18: when the object handed to as_json after remove_nulls still holds a key
\* that is neither a string, an integer nor an enum member, as_json ends in an
\* error instead of returning output.
C18_ForeignKeyFailsLoudly ==
  (pc = "encoded" /\ HasForeignKey(target)) => dumped.t = "error"

\* The caller constructs Schema(type=SchemaType.object) and passes neither
\* properties nor required.
BareObjectSchema ==
  /\ root \in {"Schema", "openapy.Schema"}
  /\ HasKey(kwargs, StrKey(<<"type">>))
  /\ GetItem(kwargs, StrKey(<<"type">>)).v = EnumV("SchemaType", "object")
  /\ ~HasKey(kwargs, StrKey(<<"properties">>))
  /\ ~HasKey(kwargs, StrKey(<<"required">>))

\* C19: constructing Schema(type=object) without properties or required
\* succeeds; the cross-field validation is not raised by construction.
C19_ObjectSchemaConstructs ==
  (BareObjectSchema /\ pc # "ready") => pc # "rejected"

C22_BoundedVisits ==
  pc \in {"done", "encoded"} => calls(source) <= Size(source)

\* A pass that re-keyed an entry holding a nested mapping, which it visited.
C22_Witness ==
  /\ pc = "done"
  /\ source.t = "dict"
  /\ \E i \in DOMAIN source.items :
       /\ NewKey(source.items[i].k) # source.items[i].k
       /\ source.items[i].v.t = "dict"
       /\ source.items[i].v.items # <<>>
  /\ calls(source) >= 3

\* The value a JSON text decodes to, a mapping as the set of its entries.
RECURSIVE AsMapping(_)
AsMapping(v) ==
  CASE v.t = "dict" ->
         [t |-> "dict", entries |-> { Item(v.items[i].k, AsMapping(v.items[i].v)) : i \in DOMAIN v.items }]
    [] v.t \in {"list", "tuple"} ->
         [t |-> v.t, items |-> [i \in DOMAIN v.items |-> AsMapping(v.items[i])]]
    [] OTHER -> v

Swapped(items, i, j) ==
  [n \in DOMAIN items |-> IF n = i THEN items[j] ELSE IF n = j THEN items[i] ELSE items[n]]

\* C25: two inputs that are equal as mappings but list their entries in a
\* different order yield results that are equal as mappings.
C25_SiblingOrderIrrelevant ==
  (pc = "done" /\ source.t = "dict")
    => \A i, j \in DOMAIN source.items :
         AsMapping(remove_nulls(DictV(Swapped(source.items, i, j)))) = AsMapping(target)

\* Every mapping of v, also those that are elements of a list or a tuple, has
\* no null-valued entry, no enum key and no string key ending in an underscore.
RECURSIVE Canonicalized(_)
Canonicalized(v) ==
  CASE v.t = "dict" ->
         \A i \in DOMAIN v.items :
           /\ v.items[i].v # None
           /\ v.items[i].k.kt # "enum"
           /\ v.items[i].k.kt = "str" => ~endswith_(v.items[i].k.s)
           /\ Canonicalized(v.items[i].v)
    [] v.t \in {"list", "tuple"} -> \A i \in DOMAIN v.items : Canonicalized(v.items[i])
    [] OTHER -> TRUE

\* C26: as_dict applies absence suppression, underscore renaming and enum
\* re-keying to the records that are elements of a sequence-valued field,
\* whether the sequence was given as a list or as a tuple.
C26_SequencesCanonicalized ==
  (pc = "dumped" /\ \E i \in DOMAIN kwargs : kwargs[i].v.t \in {"list", "tuple"})
    => Canonicalized(dumped)

\* The argument the caller passes for a field, None when it passes none.
Argument(name) ==
  IF HasKey(kwargs, StrKey(name)) THEN GetItem(kwargs, StrKey(name)).v ELSE None

\* properties and required are set and every name in required is a key of
\* properties.
ObjectSchemaComplete ==
  /\ Argument(<<"properties">>) # None
  /\ Argument(<<"required">>) # None
  /\ \A i \in DOMAIN Argument(<<"required">>).items :
       HasKey(Argument(<<"properties">>).items, StrKey(Argument(<<"required">>).items[i].s))

\* The validation error of the variant a Schema class belongs to.
ValidationErrorOf(cls) ==
  IF cls = "openapy.Schema" THEN Error("ValidationError") ELSE Error("ValueError")

\* C27: in the validating variants, constructing a Schema of type object
\* succeeds exactly when properties and required are set and every required
\* name is a key of properties; otherwise it ends in the variant's validation
\* error and in no other failure. A Schema of another type is not checked.
C27_ObjectSchemaValidation ==
  (root \in {"openapy.Schema", "openapy.schema.Schema"} /\ pc \in {"built", "rejected"})
    => IF Argument(<<"type">>) = EnumV("SchemaType", "object")
       THEN /\ pc = "built" <=> ObjectSchemaComplete
            /\ pc = "rejected" => built = ValidationErrorOf(root)
       ELSE pc = "built"

\* Every key of the mapping given is a key of the mapping emitted.
KeysKept(given, out) == \A i \in DOMAIN given.items : HasKey(out.items, given.items[i].k)

\* The keys of the mapping the caller passes for a field all are keys of the
\* mapping emitted under that field.
KeysVerbatim(name) ==
  Argument(name) # None /\ Argument(name).t = "dict"
    => /\ HasKey(dumped.items, StrKey(name))
       /\ KeysKept(Argument(name), GetItem(dumped.items, StrKey(name)).v)

\* The same for the properties of the Schema the caller passes as schema.
PropertiesVerbatim ==
  (/\ Argument(<<"schema">>) # None
   /\ HasKey(Argument(<<"schema">>).items, StrKey(<<"properties">>)))
    => KeysKept(GetItem(Argument(<<"schema">>).items, StrKey(<<"properties">>)).v,
                GetItem(GetItem(dumped.items, StrKey(<<"schema">>)).v.items,
                        StrKey(<<"properties">>)).v)

\* C28: as_dict emits the caller-chosen keys of OpenAPI.paths,
\* Schema.properties and Operation.responses unchanged, also those that begin
\* or end with an underscore.
C28_DataKeysVerbatim ==
  (pc = "dumped" /\ root \in {"openapy.OpenAPI", "openapy.Operation", "openapy.Parameter"})
    => /\ KeysVerbatim(<<"paths">>)
       /\ KeysVerbatim(<<"responses">>)
       /\ PropertiesVerbatim

-----------------------------------------------------------------------------
(* Claims about interleaved as_dict calls (SpecRuns). *)

\* C21: as_dict calls on the same record, interleaved step by step, each
\* return the mapping a call executed alone returns, and none of them raises.
C21_InterleavedRunsAgree ==
  \A r \in DOMAIN runs :
    /\ runs[r].stage # "raised"
    /\ runs[r].stage = "returned" => runs[r].out = as_dict(built)

\* One call returned a mapping with re-keyed and removed entries while another
\* call was in the middle of its loop.
C21_Witness ==
  /\ Len(runs) = 2
  /\ runs[1].stage = "looping" /\ runs[1].i > 1 /\ runs[1].i <= Len(runs[1].snap)
  /\ runs[2].stage = "returned"
  /\ HasKey(runs[2].out.items, StrKey(<<"in">>))
  /\ Len(runs[2].out.items) < Len(runs[2].snap)

-----------------------------------------------------------------------------
(* Claims about the export tool (SpecCLI). *)

\* C23: a successful export writes the document exactly once: to the file
\* named by -o when that option is given, to standard output otherwise.
C23_WrittenOnceToDestination ==
  pc = "exported"
    => IF args.output = None
       THEN Len(stdout) = 1 /\ files = <<>>
       ELSE /\ stdout = <<>>
            /\ Len(files) = 1
            /\ files[1].name = args.output

-----------------------------------------------------------------------------
(* Claims about the entries remove_nulls keeps (SpecRN). *)

\* The number of entries of a mapping whose value is not None.
NonNull(items) == Cardinality({ i \in DOMAIN items : items[i].v # None })

\* before is a mapping of the input and after the same mapping after the pass:
\* after has one entry for every entry of before whose value is not None, and
\* holds the value of each under its (re-keyed) key; so in the mappings below.
RECURSIVE NoEntryLost(_, _)
NoEntryLost(before, after) ==
  CASE before.t = "dict" ->
         /\ Len(after.items) = NonNull(before.items)
         /\ \A i \in DOMAIN before.items :
              LET e == before.items[i]
              IN  e.v # None =>
                    /\ HasKey(after.items, NewKey(e.k))
                    /\ GetItem(after.items, NewKey(e.k)).v = remove_nulls(e.v)
                    /\ NoEntryLost(e.v, remove_nulls(e.v))
    [] before.t = "list" ->
         \A i \in DOMAIN before.items :
           NoEntryLost(before.items[i], remove_nulls(before.items[i]))
    [] OTHER -> TRUE

\* C29: remove_nulls never loses an entry whose value is not None; moving an
\* entry to its new key neither overwrites nor deletes another entry.
C29_NoNonNullEntryLost == pc = "done" => NoEntryLost(source, target)

\* C30: remove_nulls is idempotent: a second pass over the result of a pass
\* changes nothing.
C30_Idempotent == pc = "done" => remove_nulls(target) = target

\* A pass that removed a null entry and moved an entry to a new key, and left
\* a mapping that still has entries.
C30_Witness ==
  /\ pc = "done"
  /\ source.t = "dict"
  /\ \E i \in DOMAIN source.items : source.items[i].v = None
  /\ \E i \in DOMAIN source.items :
       /\ source.items[i].v # None
       /\ NewKey(source.items[i].k) # source.items[i].k
       /\ source.items[i].k.kt = "str"
       /\ HasKey(target.items, NewKey(source.items[i].k))
  /\ remove_nulls(target) = target

====
